---- MODULE Spec2Model ----
(***************************************************************************)
(* The tree sequence builder of tsinfer (lib/tree_sequence_builder.c) as a *)
(* state machine.  One action per API call; every action runs the whole    *)
(* call, helper functions included.                                        *)
(*                                                                         *)
(* Representation.                                                         *)
(*  - Node ids are the C ids (0, 1, ...); time[u + 1] is self->time[u].    *)
(*  - Times are doubles in the code.  They are counted here in ticks of    *)
(*    PC_ANCESTOR_INCREMENT (2^-16), so 1.0 is OneUnit ticks; all the      *)
(*    arithmetic the code does on them (+ 1, - 2^-16, comparisons) is      *)
(*    exact on these values.                                               *)
(*  - An indexed_edge_t * is an edge id: a position in the edge heap       *)
(*    `edge`.  A chain head->next->... is the sequence of its edge ids.    *)
(*  - An AVL index is the sequence of the edge ids of its nodes, in tree   *)
(*    order.  Searches compare the current field values of the edges, as   *)
(*    the comparison callbacks do.                                         *)
(*  - assert() is active (the Makefile does not define NDEBUG): a failed   *)
(*    assertion aborts the process; `fault` records it.                    *)
(*  - Memory allocation is assumed to succeed, but for malloc(0), which    *)
(*    may return NULL or a pointer.                                        *)
(*  - call.num_nodes is num_nodes before the last call.                    *)
(*  - self->path has max_nodes entries; those past num_nodes are NULL.     *)
(*  - A mutation list, and a table of the dumped collection, is the        *)
(*    sequence of its entries; the frozen index arrays hold edge_t values. *)
(*  - Init is the builder that alloc would leave if it allocated           *)
(*    self->time and self->node_flags; SpecAlloc runs alloc as it is.      *)
(*                                                                         *)
(* Specifications: Spec (add_path with any arguments), SpecValid (well-    *)
(* formed calls), SpecFreeze (repeated paths, mutations, freeze_indexes),  *)
(* SpecTables (dump and restore), SpecRestore (restore of any rows),       *)
(* SpecTimes (node times in any order), SpecAlloc (alloc),                 *)
(* SpecRestoreRows (restore of rows with left < right), SpecMutations      *)
(* (mutation lists), SpecIds (add_path with any ids, negative ones too),   *)
(* SpecContigs (paths of several contigs), SpecStore (the ancestor        *)
(* store).                                                                 *)
(***************************************************************************)
EXTENDS Integers, Sequences, FiniteSets, TLC

VARIABLES
    time,              \* self->time[0 .. num_nodes-1]
    node_flags,        \* self->node_flags[0 .. num_nodes-1], a set of flag names
    path,              \* self->path[u]: the chain of edge ids of child u
    edge,              \* the edge records, by edge id
    left_index,        \* self->left_index, in order
    right_index,       \* self->right_index, in order
    path_index,        \* self->path_index, in order
    edge_heap,         \* object_heap_get_num_allocated(&self->edge_heap)
    avl_node_heap,     \* object_heap_get_num_allocated(&self->avl_node_heap)
    mutations,         \* self->sites.mutations[l]: the mutation list of site l
    num_mutations,     \* self->num_mutations
    left_index_edges,  \* self->left_index_edges[0 .. num_edges-1], edge_t values
    right_index_edges, \* self->right_index_edges[0 .. num_edges-1], edge_t values
    num_edges,         \* self->num_edges, the frozen edge count
    tables,            \* the table collection the last dump wrote, or NoTables
    call,              \* the last API call and its arguments
    ret,               \* what the last API call returned
    fault,             \* the assertion the last call died on, or NoFault
    store              \* the ancestor_store_t of the process, or NoStore

vars ==
    << time, node_flags, path, edge, left_index, right_index, path_index,
       edge_heap, avl_node_heap, mutations, num_mutations, left_index_edges,
       right_index_edges, num_edges, tables, call, ret, fault, store >>

(***************************************************************************)
(* Bounds of the model.                                                    *)
(***************************************************************************)
MaxPathLen == 2        \* edges per add_path call
MaxArgNodes == 3       \* Spec: add_node is called while num_nodes < MaxArgNodes
MaxArgTime == 1        \* Spec: the node times passed are 0 .. MaxArgTime ticks
MaxArgCoord == 1       \* Spec: the coordinates passed are 0 .. MaxArgCoord
MaxArgEdges == 2       \* Spec: add_path is called while fewer edges are allocated
MaxNodes == 4          \* SpecValid: add_node is called while num_nodes < MaxNodes
MaxTime == 2           \* SpecValid: the node times passed are 0 .. MaxTime ticks
MaxCoord == 2          \* SpecValid: the coordinates passed are 0 .. MaxCoord
MaxEdges == 4          \* SpecValid: add_path is called while fewer edges are allocated
nodes_chunk_size == 2  \* alloc's nodes_chunk_size: the node arrays grow by this many
NumSites == 2          \* the sites the builder is allocated for
MaxMutations == 1      \* mutations per add_mutations call, and calls while fewer are stored
FzMaxNodes == 3        \* SpecFreeze: add_node is called while num_nodes < FzMaxNodes
FzMaxEdges == 3        \* SpecFreeze: add_path is called while fewer edges are allocated
TbMaxNodes == 3        \* SpecTables: add_node is called while num_nodes < TbMaxNodes
TbMaxEdges == 3        \* SpecTables: add_path is called while fewer edges are allocated
TbMaxMutations == 3    \* SpecTables: mutations per add_mutations call
TmMaxNodes == 3        \* SpecTimes: add_node is called while num_nodes < TmMaxNodes
TmMaxEdges == 3        \* SpecTimes: add_path is called while fewer edges are allocated
MaxSiteRows == 6       \* SpecAlloc: rows of the site table passed to alloc
RsMaxNodes == 3        \* SpecRestore: node rows per restore_nodes call
RsMaxTime == 1         \* SpecRestore: the node times restored are 0 .. RsMaxTime ticks
RsMaxCoord == 2        \* SpecRestore: the coordinates restored are 0 .. RsMaxCoord
RsMaxEdges == 2        \* SpecRestore: edge rows per restore_edges call
RwMaxCoord == 3        \* SpecRestoreRows: the coordinates restored are 0 .. RwMaxCoord
RwMaxEdges == 3        \* SpecRestoreRows: edge rows per restore_edges call
MuMaxNodes == 2        \* SpecMutations: add_node is called while num_nodes < MuMaxNodes
MuMaxPerCall == 2      \* SpecMutations: mutations per add_mutations or restore_mutations call
MuMaxStored == 3       \* SpecMutations: mutations are added while fewer are stored
MaxNegativeIds == 2    \* SpecIds: the node ids passed are -MaxNegativeIds .. num_nodes
IdMaxNodes == 2        \* SpecIds: add_node is called while num_nodes < IdMaxNodes
IdMaxCoord == 2        \* SpecIds: the coordinates passed are 0 .. IdMaxCoord
IdMaxEdges == 2        \* SpecIds: add_path is called while fewer edges are allocated
CgMaxNodes == 4        \* SpecContigs: add_node is called while num_nodes < CgMaxNodes
CgMaxPathLen == 5      \* SpecContigs: edges per add_path call
CgMaxEdges == 5        \* SpecContigs: add_path is called while no more edges are allocated
AgeWidth == 2          \* SpecStore: the bits of an ancestor age
StMaxAncestors == 4    \* SpecStore: ancestors passed to ancestor_store_alloc
StMaxSites == 2        \* SpecStore: sites passed to ancestor_store_alloc
StMaxFocalSites == 2   \* SpecStore: focal sites passed to ancestor_store_alloc
StMaxSegments == 2     \* SpecStore: segments passed to ancestor_store_alloc

(***************************************************************************)
(* Program constants.                                                      *)
(***************************************************************************)
NULL_NODE == -1
TSK_NULL == -1
PC_ANCESTOR_INCREMENT == 1
OneUnit == 65536

TSI_NODE_IS_PC_ANCESTOR == "TSI_NODE_IS_PC_ANCESTOR"
TSI_COMPRESS_PATH == "TSI_COMPRESS_PATH"

OK == "OK"
TSI_ERR_NO_MEMORY == "TSI_ERR_NO_MEMORY"

TSI_ERR_GENERIC == "TSI_ERR_GENERIC"
TSI_ERR_BAD_PATH_PARENT == "TSI_ERR_BAD_PATH_PARENT"
TSI_ERR_BAD_PATH_TIME == "TSI_ERR_BAD_PATH_TIME"
TSI_ERR_NONCONTIGUOUS_EDGES == "TSI_ERR_NONCONTIGUOUS_EDGES"
TSI_ERR_ASSERTION_FAILURE == "TSI_ERR_ASSERTION_FAILURE"
TSI_ERR_UNSORTED_EDGES == "TSI_ERR_UNSORTED_EDGES"
ABORT == "ABORT"

NoFault == "none"

\* The caller's table collection before any dump.
\* No ancestor_store_alloc has been called: the struct holds nothing.
NoStore == [num_ancestors |-> 0]

NoTables ==
    [ written |-> FALSE, sequence_length |-> 0, nodes |-> << >>, edges |-> << >>,
      sites |-> << >>, mutations |-> << >> ]

(***************************************************************************)
(* Small helpers on sequences.                                             *)
(***************************************************************************)
Range(s) == { s[i] : i \in DOMAIN s }

RemoveAt(s, i) == SubSeq(s, 1, i - 1) \o SubSeq(s, i + 1, Len(s))

InsertAt(s, i, x) == SubSeq(s, 1, i - 1) \o << x >> \o SubSeq(s, i, Len(s))

Min2(a, b) == IF a < b THEN a ELSE b

RECURSIVE SumLen(_)
SumLen(ps) ==
    IF ps = << >> THEN 0 ELSE Len(Head(ps)) + SumLen(Tail(ps))

RECURSIVE Flatten(_)
Flatten(ps) ==
    IF ps = << >> THEN << >> ELSE Head(ps) \o Flatten(Tail(ps))

(***************************************************************************)
(* The builder as one value: the operators below take and return it.       *)
(***************************************************************************)
self ==
    [ time |-> time, node_flags |-> node_flags, path |-> path, edge |-> edge,
      left_index |-> left_index, right_index |-> right_index,
      path_index |-> path_index, edge_heap |-> edge_heap,
      avl_node_heap |-> avl_node_heap, mutations |-> mutations,
      num_mutations |-> num_mutations, left_index_edges |-> left_index_edges,
      right_index_edges |-> right_index_edges, num_edges |-> num_edges,
      head |-> << >>, id |-> NULL_NODE,
      fault |-> NoFault, ret |-> OK ]

num_nodes(b) == Len(b.time)

Faulted(b) == b.fault # NoFault

Die(b, what) == [b EXCEPT !.fault = what]

\* The call is on its way out: it died, or ret is set and `goto out` taken.
Stopped(b) == Faulted(b) \/ b.ret # OK

(***************************************************************************)
(* The three comparison callbacks.                                         *)
(***************************************************************************)
Sign(x, y) == IF x > y THEN 1 ELSE IF x < y THEN -1 ELSE 0

cmp_edge_left_increasing_time(ca, cb) ==
    IF ca.left # cb.left THEN Sign(ca.left, cb.left)
    ELSE IF ca.time # cb.time THEN Sign(ca.time, cb.time)
    ELSE Sign(ca.child, cb.child)

cmp_edge_right_decreasing_time(ca, cb) ==
    IF ca.right # cb.right THEN Sign(ca.right, cb.right)
    ELSE IF ca.time # cb.time THEN Sign(cb.time, ca.time)
    ELSE Sign(ca.child, cb.child)

cmp_edge_path(ca, cb) ==
    IF ca.left # cb.left THEN Sign(ca.left, cb.left)
    ELSE IF ca.right # cb.right THEN Sign(ca.right, cb.right)
    ELSE IF ca.parent # cb.parent THEN Sign(ca.parent, cb.parent)
    ELSE Sign(ca.child, cb.child)

Cmp(which, ca, cb) ==
    CASE which = "left" -> cmp_edge_left_increasing_time(ca, cb)
      [] which = "right" -> cmp_edge_right_decreasing_time(ca, cb)
      [] OTHER -> cmp_edge_path(ca, cb)

Index(b, which) ==
    CASE which = "left" -> b.left_index
      [] which = "right" -> b.right_index
      [] OTHER -> b.path_index

SetIndex(b, which, s) ==
    CASE which = "left" -> [b EXCEPT !.left_index = s]
      [] which = "right" -> [b EXCEPT !.right_index = s]
      [] OTHER -> [b EXCEPT !.path_index = s]

(***************************************************************************)
(* The AVL tree library (lib/avl.c) as an ordered container.               *)
(***************************************************************************)
\* The positions of the nodes whose item compares equal to `item`, and the
\* number of nodes whose item compares lower.
EqualPositions(b, which, item) ==
    { i \in DOMAIN Index(b, which) : Cmp(which, item, b.edge[Index(b, which)[i]]) = 0 }

LowerCount(b, which, item) ==
    Cardinality({ i \in DOMAIN Index(b, which) :
                      Cmp(which, b.edge[Index(b, which)[i]], item) < 0 })

FirstOrNull(hits) == IF hits = {} THEN 0 ELSE CHOOSE i \in hits : \A k \in hits : i <= k

\* avl_search: the position of the node whose item compares equal to `item`,
\* 0 (NULL) when there is none.
avl_search(b, which, item) == FirstOrNull(EqualPositions(b, which, item))

\* avl_insert_node: NULL (FALSE here) when an item comparing equal is in the
\* tree, else the node is linked in at its place in the order.
avl_can_insert(b, which, e) == avl_search(b, which, b.edge[e]) = 0

avl_insert_node(b, which, e) ==
    SetIndex(b, which, InsertAt(Index(b, which), LowerCount(b, which, b.edge[e]) + 1, e))

avl_unlink_node(b, which, pos) == SetIndex(b, which, RemoveAt(Index(b, which), pos))

ClosestOf(positions, eq, pred) ==
    IF eq # {} THEN eq ELSE { i \in { pred, pred + 1 } : i \in positions }

\* avl_search_closest: the node the descent ends on.  It is the node that
\* compares equal when there is one; otherwise, depending on the shape of
\* the tree, the in-order predecessor or the in-order successor of `item`.
avl_search_closest(b, which, item) ==
    ClosestOf(DOMAIN Index(b, which), EqualPositions(b, which, item),
              LowerCount(b, which, item))

(***************************************************************************)
(* Object heaps, edges and index entries.                                  *)
(***************************************************************************)
Time(b, u) == b.time[u + 1]

IsNode(b, u) == u >= 0 /\ u < num_nodes(b)

NewEdge(b) == Len(b.edge)

tree_sequence_builder_free_edge(b, e) ==
    [b EXCEPT !.edge[e].free = TRUE, !.edge_heap = @ - 1]

\* The edge allocated is NewEdge of the result.
tree_sequence_builder_alloc_edge(b, left, right, parent, child) ==
    IF Stopped(b) THEN b
    ELSE IF ~(parent < num_nodes(b)) THEN Die(b, "assert_parent")
    ELSE IF ~(child < num_nodes(b)) THEN Die(b, "assert_child")
    ELSE IF parent < 0 \/ child < 0 THEN Die(b, "undefined_read")
    ELSE IF ~(Time(b, parent) > Time(b, child)) THEN Die(b, "assert_time")
    ELSE [b EXCEPT
            !.edge = Append(@, [left |-> left, right |-> right, parent |-> parent,
                                child |-> child, time |-> Time(b, child),
                                free |-> FALSE]),
            !.edge_heap = @ + 1]

unindex_edge_at(b, which, pos) ==
    IF pos = 0 THEN Die(b, "assert_avl_search")
    ELSE [avl_unlink_node(b, which, pos) EXCEPT !.avl_node_heap = @ - 1]

unindex_edge_in(b, which, e) ==
    IF Stopped(b) THEN b
    ELSE unindex_edge_at(b, which, avl_search(b, which, b.edge[e]))

tree_sequence_builder_unindex_edge(b, e) ==
    unindex_edge_in(unindex_edge_in(unindex_edge_in(b, "left", e), "right", e), "path", e)

index_edge_in(b, which, e) ==
    IF Stopped(b) THEN b
    ELSE IF avl_can_insert(b, which, e)
    THEN avl_insert_node([b EXCEPT !.avl_node_heap = @ + 1], which, e)
    ELSE Die(b, "assert_avl_insert")

tree_sequence_builder_index_edge(b, e) ==
    index_edge_in(index_edge_in(index_edge_in(b, "left", e), "right", e), "path", e)

RECURSIVE index_edges_loop(_, _)
index_edges_loop(b, chain) ==
    IF Stopped(b) \/ chain = << >> THEN b
    ELSE index_edges_loop(tree_sequence_builder_index_edge(b, Head(chain)), Tail(chain))

tree_sequence_builder_index_edges(b, node) ==
    IF Stopped(b) THEN b ELSE index_edges_loop(b, b.path[node + 1])

(***************************************************************************)
(* expand_nodes and add_node.  self->path has max_nodes entries: calloc    *)
(* and the memset of expand_nodes leave NULL in those past num_nodes.      *)
(* self->time and self->node_flags are read below num_nodes only, so the   *)
(* model keeps their first num_nodes entries.                              *)
(***************************************************************************)
max_nodes(b) == Len(b.path)

expand_nodes_no_memset(b) ==
    [b EXCEPT !.path = @ \o [i \in 1 .. nodes_chunk_size |-> @[Len(@)]]]

tree_sequence_builder_expand_nodes(b) ==
    [b EXCEPT !.path = @ \o [i \in 1 .. nodes_chunk_size |-> << >>]]

add_node_store(b, t, flags) ==
    IF num_nodes(b) < max_nodes(b)
    THEN [b EXCEPT !.time = Append(@, t),
                   !.node_flags = Append(@, flags),
                   !.id = num_nodes(b)]
    ELSE Die(b, "assert_num_nodes_lt_max_nodes")

\* A plausible slip: the flags passed are not stored.
add_node_unflagged(b, t, flags) ==
    IF num_nodes(b) = max_nodes(b)
    THEN add_node_store(tree_sequence_builder_expand_nodes(b), t, {})
    ELSE add_node_store(b, t, {})

tree_sequence_builder_add_node(b, t, flags) ==
    IF num_nodes(b) = max_nodes(b)
    THEN add_node_store(tree_sequence_builder_expand_nodes(b), t, flags)
    ELSE add_node_store(b, t, flags)

(***************************************************************************)
(* add_mutation.  A mutation list is the sequence of its list nodes from   *)
(* head to tail.                                                           *)
(***************************************************************************)
num_sites(b) == Len(b.mutations)

\* A plausible slip: the new list node is linked in at the head.
add_mutation_link_at_head(b, site, node, derived_state) ==
    IF b.mutations[site + 1] = << >> /\ derived_state # 1
    THEN Die(b, "assert_first_derived_state")
    ELSE [b EXCEPT !.mutations[site + 1] =
                       << [node |-> node, derived_state |-> derived_state] >> \o @,
                   !.num_mutations = @ + 1]

add_mutation_link(b, site, node, derived_state) ==
    IF b.mutations[site + 1] = << >> /\ derived_state # 1
    THEN Die(b, "assert_first_derived_state")
    ELSE [b EXCEPT !.mutations[site + 1] =
                       Append(@, [node |-> node, derived_state |-> derived_state]),
                   !.num_mutations = @ + 1]

tree_sequence_builder_add_mutation(b, site, node, derived_state) ==
    IF Stopped(b) THEN b
    ELSE IF ~(node < num_nodes(b)) THEN Die(b, "assert_mutation_node")
    ELSE IF ~(node >= 0) THEN Die(b, "assert_mutation_node_nonnegative")
    ELSE IF ~(site < num_sites(b)) THEN Die(b, "assert_mutation_site")
    ELSE IF ~(site >= 0) THEN Die(b, "assert_mutation_site_nonnegative")
    ELSE IF ~(derived_state = 0 \/ derived_state = 1) THEN Die(b, "assert_derived_state")
    ELSE add_mutation_link(b, site, node, derived_state)

\* site and derived_state are the arrays of the call, from index j + 1 on.
RECURSIVE add_mutations_loop(_, _, _, _)
add_mutations_loop(b, node, site, derived_state) ==
    IF Stopped(b) \/ site = << >> THEN b
    ELSE add_mutations_loop(
             tree_sequence_builder_add_mutation(b, Head(site), node, Head(derived_state)),
             node, Tail(site), Tail(derived_state))

(***************************************************************************)
(* freeze_indexes.  The frozen arrays hold copies of the edge_t part of    *)
(* the indexed edges, in index order.                                      *)
(***************************************************************************)
edge_t(r) == [left |-> r.left, right |-> r.right, parent |-> r.parent, child |-> r.child]

freeze_copy(b, index) == [j \in 1 .. Len(index) |-> edge_t(b.edge[index[j]])]

\* malloc0 is what malloc returns for zero bytes.
tree_sequence_builder_freeze_indexes(b, malloc0) ==
    IF Stopped(b) THEN b
    ELSE IF Len(b.left_index) # Len(b.right_index)
    THEN Die(b, "assert_freeze_counts")
    ELSE IF Len(b.left_index) = 0 /\ malloc0 = "null"
    THEN [b EXCEPT !.num_edges = 0,
                   !.left_index_edges = << >>,
                   !.right_index_edges = << >>,
                   !.ret = TSI_ERR_NO_MEMORY]
    ELSE [b EXCEPT !.num_edges = Len(b.left_index),
                   !.left_index_edges = freeze_copy(b, b.left_index),
                   !.right_index_edges = freeze_copy(b, b.right_index)]

(***************************************************************************)
(* restore_nodes, restore_edges, restore_mutations.  The arrays of a call  *)
(* are one sequence of rows.                                               *)
(***************************************************************************)
\* rows: the arrays of the call from index j on.
RECURSIVE tree_sequence_builder_restore_nodes(_, _)
tree_sequence_builder_restore_nodes(b, rows) ==
    IF Stopped(b) \/ rows = << >> THEN b
    ELSE tree_sequence_builder_restore_nodes(
             tree_sequence_builder_add_node(b, Head(rows).time, Head(rows).flags),
             Tail(rows))

\* prev->next = e: e becomes the successor of prev in the chain prev is in.
LinkAfter(chain, prev, e) ==
    IF \E k \in 1 .. Len(chain) : chain[k] = prev
    THEN SubSeq(chain, 1, CHOOSE k \in 1 .. Len(chain) : chain[k] = prev) \o << e >>
    ELSE chain

\* e is the edge just allocated for rows[j]; prev is the edge of rows[j - 1],
\* or 0 for NULL.
restore_edges_overlap(b, prev, e) ==
    IF prev = 0 THEN Die(b, "null_prev_dereferenced")
    ELSE IF b.edge[prev].right > b.edge[e].left
    THEN [b EXCEPT !.ret = TSI_ERR_UNSORTED_EDGES]
    ELSE [b EXCEPT !.path = [u \in 1 .. Len(b.path) |-> LinkAfter(b.path[u], prev, e)]]

restore_edges_link(b, prev, e) ==
    IF Stopped(b) THEN b
    ELSE IF b.path[b.edge[e].child + 1] = << >>
    THEN [b EXCEPT !.path[b.edge[e].child + 1] = << e >>]
    ELSE restore_edges_overlap(b, prev, e)

\* The edge allocated last is b.head[1].
restore_edges_allocated(b, prev) ==
    IF Stopped(b) THEN b
    ELSE tree_sequence_builder_index_edge(
             restore_edges_link(b, prev, b.head[1]), b.head[1])

restore_edges_alloc(b, row) ==
    [tree_sequence_builder_alloc_edge(b, row.left, row.right, row.parent, row.child)
        EXCEPT !.head = << Len(b.edge) + 1 >>]

RECURSIVE restore_edges_loop(_, _, _, _)
restore_edges_loop(b, rows, j, prev) ==
    IF Stopped(b) \/ j > Len(rows) THEN b
    ELSE IF j > 1 /\ rows[j - 1].child > rows[j].child
    THEN [b EXCEPT !.ret = TSI_ERR_UNSORTED_EDGES]
    ELSE restore_edges_loop(
             restore_edges_allocated(restore_edges_alloc(b, rows[j]), prev),
             rows, j + 1, Len(b.edge) + 1)

restore_edges_done(b, malloc0) == tree_sequence_builder_freeze_indexes([b EXCEPT !.head = << >>], malloc0)

tree_sequence_builder_restore_edges(b, rows, malloc0) ==
    restore_edges_done(restore_edges_loop(b, rows, 1, 0), malloc0)

RECURSIVE tree_sequence_builder_restore_mutations(_, _)
tree_sequence_builder_restore_mutations(b, rows) ==
    IF Stopped(b) \/ rows = << >> THEN b
    ELSE tree_sequence_builder_restore_mutations(
             tree_sequence_builder_add_mutation(b, Head(rows).site, Head(rows).node,
                                                Head(rows).derived_state),
             Tail(rows))

(***************************************************************************)
(* dump.  A table is the sequence of its rows; a row id is its index from  *)
(* 0.                                                                      *)
(***************************************************************************)
states == << "0", "1" >>

dump_nodes(b) ==
    [u \in 1 .. num_nodes(b) |-> [flags |-> b.node_flags[u], time |-> b.time[u]]]

dump_path(b, u) == [i \in 1 .. Len(b.path[u]) |-> edge_t(b.edge[b.path[u][i]])]

RECURSIVE dump_edges(_, _)
dump_edges(b, u) ==
    IF u > num_nodes(b) THEN << >> ELSE dump_path(b, u) \o dump_edges(b, u + 1)

dump_sites(b) ==
    [l \in 1 .. num_sites(b) |-> [position |-> l - 1, ancestral_state |-> "0"]]

dump_mutation_row(l, mln, parent) ==
    [site |-> l, node |-> mln.node, parent |-> parent,
     derived_state |-> states[mln.derived_state + 1]]

\* rows: the mutation table so far; l: the site, from 0; k: the position in
\* its list, from 1; parent: the variable of that name.
RECURSIVE dump_mutations(_, _, _, _, _)
dump_mutations_parent_kept(b, rows, l, k, parent) ==
    IF l >= num_sites(b) THEN rows
    ELSE IF k > Len(b.mutations[l + 1]) THEN dump_mutations(b, rows, l + 1, 1, parent)
    ELSE dump_mutations(
             b, Append(rows, dump_mutation_row(l, b.mutations[l + 1][k], parent)),
             l, k + 1, Len(rows))

dump_mutations(b, rows, l, k, parent) ==
    IF l >= num_sites(b) THEN rows
    ELSE IF k > Len(b.mutations[l + 1]) THEN dump_mutations(b, rows, l + 1, 1, parent)
    ELSE dump_mutations(
             b,
             Append(rows, dump_mutation_row(l, b.mutations[l + 1][k],
                                            IF k = 1 THEN TSK_NULL ELSE parent)),
             l, k + 1, Len(rows))

tree_sequence_builder_dump(b) ==
    [ written |-> TRUE,
      sequence_length |-> num_sites(b),
      nodes |-> dump_nodes(b),
      edges |-> dump_edges(b, 1),
      sites |-> dump_sites(b),
      mutations |-> dump_mutations(b, << >>, 0, 1, TSK_NULL) ]

(***************************************************************************)
(* add_mutations.                                                          *)
(***************************************************************************)
add_mutations_refreeze(b, node, site, derived_state) ==
    tree_sequence_builder_freeze_indexes(
        add_mutations_loop(b, node, site, derived_state), "pointer")

tree_sequence_builder_add_mutations(b, node, site, derived_state) ==
    add_mutations_loop(b, node, site, derived_state)

(***************************************************************************)
(* find_match.                                                             *)
(***************************************************************************)
SameTriple(found, query) ==
    /\ found.left = query.left
    /\ found.right = query.right
    /\ found.parent = query.parent

\* A plausible slip: the neighbours of the closest node are not inspected.
find_match_at_closest_only(b, query, pos) ==
    IF SameTriple(b.edge[b.path_index[pos]], b.edge[query]) THEN b.path_index[pos]
    ELSE 0

\* What find_match returns when avl_search_closest ends on position pos of
\* the path index: an edge id, or 0 for NULL.
find_match_at(b, query, pos) ==
    IF SameTriple(b.edge[b.path_index[pos]], b.edge[query]) THEN b.path_index[pos]
    ELSE IF pos - 1 >= 1 /\ SameTriple(b.edge[b.path_index[pos - 1]], b.edge[query])
    THEN b.path_index[pos - 1]
    ELSE IF pos + 1 <= Len(b.path_index)
            /\ SameTriple(b.edge[b.path_index[pos + 1]], b.edge[query])
    THEN b.path_index[pos + 1]
    ELSE 0

find_match_from(b, query, closest) ==
    IF closest = {} THEN { 0 } ELSE { find_match_at(b, query, pos) : pos \in closest }

\* Every edge find_match can return for `query`, over the nodes the closest
\* search may end on.
find_match_results(b, query) ==
    find_match_from(b, query,
                    avl_search_closest(b, "path", [b.edge[query] EXCEPT !.child = 0]))

tree_sequence_builder_find_match(b, query) ==
    CHOOSE r \in find_match_results(b, query) : TRUE

(***************************************************************************)
(* Squash.                                                                 *)
(***************************************************************************)
Squashable(b, prev, x) ==
    /\ b.edge[prev].right = b.edge[x].left
    /\ b.edge[prev].parent = b.edge[x].parent

\* A plausible slip: x is freed and prev keeps its interval.
free_without_extend(b, prev, x) ==
    IF Stopped(b) THEN b ELSE tree_sequence_builder_free_edge(b, x)

\* prev takes over the interval of x, and x is freed.
ExtendOver(b, prev, x) ==
    IF Stopped(b) THEN b
    ELSE tree_sequence_builder_free_edge(
             [b EXCEPT !.edge[prev].right = b.edge[x].right], x)

\* done: the chain up to and including prev; rest: the chain from x on.
RECURSIVE squash_edges_loop(_, _, _, _)
squash_edges_loop(b, node, done, rest) ==
    IF Stopped(b) THEN b
    ELSE IF rest = << >> THEN [b EXCEPT !.path[node + 1] = done]
    ELSE IF b.edge[Head(rest)].child # node THEN Die(b, "assert_squash_child")
    ELSE IF Squashable(b, done[Len(done)], Head(rest))
    THEN squash_edges_loop(ExtendOver(b, done[Len(done)], Head(rest)),
                           node, done, Tail(rest))
    ELSE squash_edges_loop(b, node, Append(done, Head(rest)), Tail(rest))

squash_edges_skipped(b, node) == b

tree_sequence_builder_squash_edges(b, node) ==
    IF Stopped(b) THEN b
    ELSE IF b.path[node + 1] = << >> THEN Die(b, "assert_prev_not_null")
    ELSE squash_edges_loop(b, node, << Head(b.path[node + 1]) >>, Tail(b.path[node + 1]))

\* Unindex e unless it is marked unindexed already.
unindex_if_indexed(b, e) ==
    IF Stopped(b) \/ b.edge[e].child = NULL_NODE THEN b
    ELSE tree_sequence_builder_unindex_edge(b, e)

MarkUnindexed(b, e) ==
    IF Stopped(b) THEN b ELSE [b EXCEPT !.edge[e].child = NULL_NODE]

RECURSIVE squash_indexed_loop(_, _, _, _)
squash_indexed_loop(b, node, done, rest) ==
    IF Stopped(b) THEN b
    ELSE IF rest = << >> THEN [b EXCEPT !.path[node + 1] = done]
    ELSE IF Squashable(b, done[Len(done)], Head(rest))
    THEN squash_indexed_loop(
             ExtendOver(
                 unindex_if_indexed(
                     MarkUnindexed(unindex_if_indexed(b, done[Len(done)]), done[Len(done)]),
                     Head(rest)),
                 done[Len(done)], Head(rest)),
             node, done, Tail(rest))
    ELSE squash_indexed_loop(b, node, Append(done, Head(rest)), Tail(rest))

RECURSIVE reindex_loop(_, _, _)
reindex_loop(b, node, chain) ==
    IF Stopped(b) \/ chain = << >> THEN b
    ELSE IF b.edge[Head(chain)].child = NULL_NODE
    THEN reindex_loop(
             tree_sequence_builder_index_edge(
                 [b EXCEPT !.edge[Head(chain)].child = node], Head(chain)),
             node, Tail(chain))
    ELSE reindex_loop(b, node, Tail(chain))

\* The second loop of squash_indexed_edges, over the whole path of node.
reindex_path(b, node) ==
    IF Stopped(b) THEN b ELSE reindex_loop(b, node, b.path[node + 1])

\* A plausible slip: the existing child's edges are left unsquashed.
squash_indexed_edges_skipped(b, node) == reindex_path(b, node)

tree_sequence_builder_squash_indexed_edges(b, node) ==
    IF Stopped(b) THEN b
    ELSE IF b.path[node + 1] = << >> THEN Die(b, "assert_prev_not_null")
    ELSE reindex_path(
             squash_indexed_loop(b, node, << Head(b.path[node + 1]) >>,
                                 Tail(b.path[node + 1])),
             node)

(***************************************************************************)
(* Path compression.  mapped is the edge_map_t array: a sequence of        *)
(* [source |-> edge id of the new path, dest |-> matched indexed edge].    *)
(***************************************************************************)
\* A pointer to an edge that has been freed.
Dangling(b, e) == b.edge[e].free

\* The first loop of make_pc_node: the fault it dies on, if any, and the
\* minimum it computes.
RECURSIVE min_parent_time_loop(_, _, _, _)
min_parent_time_loop(b, mapped, mapped_child, min_parent_time) ==
    IF mapped = << >> THEN [fault |-> NoFault, min |-> min_parent_time]
    ELSE IF Dangling(b, Head(mapped).dest)
    THEN [fault |-> "use_after_free", min |-> min_parent_time]
    ELSE IF b.edge[Head(mapped).dest].child # mapped_child
    THEN [fault |-> "assert_mapped_child", min |-> min_parent_time]
    ELSE min_parent_time_loop(b, Tail(mapped), mapped_child,
             Min2(min_parent_time, Time(b, b.edge[Head(mapped).source].parent)))

\* Lines 662-671 for one entry m, after its edge for the PC node is
\* allocated: the source edge is redirected, the matched edge is unindexed
\* and marked.
redirect_to_pc_node(b, m, pc_node) ==
    IF Stopped(b) THEN b
    ELSE IF Dangling(b, m.dest) THEN Die(b, "use_after_free")
    ELSE MarkUnindexed(
             [tree_sequence_builder_unindex_edge(
                  [b EXCEPT !.edge[m.source].parent = pc_node,
                            !.head = Append(@, NewEdge(b))],
                  m.dest)
              EXCEPT !.edge[m.dest].parent = pc_node],
             m.dest)

\* The second loop of make_pc_node; b.head is the chain head ... prev.
RECURSIVE make_pc_node_loop(_, _, _)
make_pc_node_loop(b, mapped, pc_node) ==
    IF Stopped(b) THEN b
    ELSE IF mapped = << >> THEN [b EXCEPT !.path[pc_node + 1] = b.head]
    ELSE make_pc_node_loop(
             redirect_to_pc_node(
                 tree_sequence_builder_alloc_edge(
                     b, b.edge[Head(mapped).source].left, b.edge[Head(mapped).source].right,
                     b.edge[Head(mapped).source].parent, pc_node),
                 Head(mapped), pc_node),
             Tail(mapped), pc_node)

\* A plausible slip: the increment is left out.
PcNodeTime_no_increment(b, min_parent_time) == min_parent_time

PcNodeTime(b, min_parent_time) == min_parent_time - PC_ANCESTOR_INCREMENT

\* make_pc_node from the time check on.
make_pc_node_at(b, mapped, mapped_child, min_parent_time) ==
    IF min_parent_time <= Time(b, mapped_child)
    THEN [b EXCEPT !.ret = TSI_ERR_ASSERTION_FAILURE]
    ELSE tree_sequence_builder_index_edges(
             tree_sequence_builder_squash_indexed_edges(
                 tree_sequence_builder_squash_edges(
                     make_pc_node_loop(
                         [tree_sequence_builder_add_node(
                              b, min_parent_time, { TSI_NODE_IS_PC_ANCESTOR })
                          EXCEPT !.head = << >>],
                         mapped, num_nodes(b)),
                     num_nodes(b)),
                 mapped_child),
             num_nodes(b))

make_pc_node_timed(b, mapped, mapped_child, r) ==
    IF r.fault # NoFault THEN Die(b, r.fault)
    ELSE make_pc_node_at(b, mapped, mapped_child, PcNodeTime(b, r.min))

tree_sequence_builder_make_pc_node(b, mapped) ==
    IF Stopped(b) THEN b
    ELSE IF Dangling(b, mapped[1].dest) THEN Die(b, "use_after_free")
    ELSE IF ~IsNode(b, b.edge[mapped[1].dest].child) THEN Die(b, "undefined_read")
    ELSE make_pc_node_timed(
             b, mapped, b.edge[mapped[1].dest].child,
             min_parent_time_loop(b, mapped, b.edge[mapped[1].dest].child,
                                  Time(b, 0) + OneUnit))

\* The scan of compress_path.  last_match is the copy of the last matched
\* edge; contig_offsets holds C offsets (from 0) into mapped.
RECURSIVE compress_scan(_, _, _, _, _)
\* A plausible slip: a contig is broken on a change of child only.
compress_scan_child_only(b, chain, mapped, contig_offsets, last_match, match_edge) ==
    IF match_edge # 0
    THEN compress_scan(b, Tail(chain),
             Append(mapped, [source |-> Head(chain), dest |-> match_edge]),
             IF ~(b.edge[match_edge].child = last_match.child)
             THEN Append(contig_offsets, Len(mapped))
             ELSE contig_offsets,
             b.edge[match_edge])
    ELSE compress_scan(b, Tail(chain), mapped, contig_offsets, last_match)

compress_scan_matched(b, chain, mapped, contig_offsets, last_match, match_edge) ==
    IF match_edge # 0
    THEN compress_scan(b, Tail(chain),
             Append(mapped, [source |-> Head(chain), dest |-> match_edge]),
             IF ~(b.edge[Head(chain)].left = last_match.right
                  /\ b.edge[match_edge].child = last_match.child)
             THEN Append(contig_offsets, Len(mapped))
             ELSE contig_offsets,
             b.edge[match_edge])
    ELSE compress_scan(b, Tail(chain), mapped, contig_offsets, last_match)

compress_scan(b, chain, mapped, contig_offsets, last_match) ==
    IF chain = << >>
    THEN [mapped |-> mapped, contig_offsets |-> Append(contig_offsets, Len(mapped)),
          ambiguous |-> FALSE]
    ELSE IF Cardinality(find_match_results(b, Head(chain))) > 1
    THEN [mapped |-> mapped, contig_offsets |-> contig_offsets, ambiguous |-> TRUE]
    ELSE compress_scan_matched(b, chain, mapped, contig_offsets, last_match,
                               tree_sequence_builder_find_match(b, Head(chain)))

\* A plausible slip: the matched edges keep their parent.
remap_loop_skipped(b, mapped, mapped_child) == b

RECURSIVE remap_loop(_, _, _)
remap_loop(b, mapped, mapped_child) ==
    IF mapped = << >> THEN b
    ELSE remap_loop([b EXCEPT !.edge[Head(mapped).source].parent = mapped_child],
                    Tail(mapped), mapped_child)

\* Lines 733-746 for the contig of entries first + 1 .. last of mapped.
compress_contig_of(b, contig, mapped_child) ==
    IF ~IsNode(b, mapped_child) THEN Die(b, "undefined_read")
    ELSE IF TSI_NODE_IS_PC_ANCESTOR \in b.node_flags[mapped_child + 1]
    THEN remap_loop(b, contig, mapped_child)
    ELSE tree_sequence_builder_make_pc_node(b, contig)

\* Contig j (from 0) of the scan.
compress_contig(b, mapped, contig_offsets, j) ==
    IF contig_offsets[j + 2] - contig_offsets[j + 1] > 1
    THEN IF Dangling(b, mapped[contig_offsets[j + 1] + 1].dest)
         THEN Die(b, "use_after_free")
         ELSE compress_contig_of(
                  b, SubSeq(mapped, contig_offsets[j + 1] + 1, contig_offsets[j + 2]),
                  b.edge[mapped[contig_offsets[j + 1] + 1].dest].child)
    ELSE b

RECURSIVE compress_contigs_loop(_, _, _, _)
compress_contigs_loop(b, mapped, contig_offsets, j) ==
    IF Stopped(b) \/ j >= Len(contig_offsets) - 1 THEN b
    ELSE compress_contigs_loop(compress_contig(b, mapped, contig_offsets, j),
                               mapped, contig_offsets, j + 1)

\* compress_path after its scan.
compress_path_scanned(b, child, scan) ==
    IF scan.ambiguous THEN Die(b, "ambiguous_match")
    ELSE tree_sequence_builder_squash_edges(
             compress_contigs_loop(b, scan.mapped, scan.contig_offsets, 0), child)

\* malloc0 is what malloc(0) returns in this build, "null" or "pointer": the
\* mapped array of an empty path has size 0.
tree_sequence_builder_compress_path(b, child, malloc0) ==
    IF Stopped(b) THEN b
    ELSE IF b.path[child + 1] = << >> /\ malloc0 = "null"
    THEN [b EXCEPT !.ret = TSI_ERR_NO_MEMORY]
    ELSE compress_path_scanned(
             b, child,
             compress_scan(b, b.path[child + 1], << >>, << >>,
                           [right |-> -1, child |-> NULL_NODE]))

(***************************************************************************)
(* add_path.  left, right and parent are the arrays of the call, given     *)
(* here as one sequence of [left, right, parent] in array order; the C     *)
(* index j is position j + 1.  b.head is the chain head ... prev.          *)
(***************************************************************************)
\* A plausible slip: the chain is linked to the child as it is built.
add_path_out_linked(b, child, chain, code) ==
    [b EXCEPT !.ret = code, !.path[child + 1] = chain]

\* A plausible slip: a time equal to the child's passes the check, and the
\* exit reports the parent.
add_path_out_parent(b, child, chain, code) ==
    [b EXCEPT !.ret = IF code = TSI_ERR_BAD_PATH_TIME THEN TSI_ERR_BAD_PATH_PARENT
                      ELSE code]

\* `goto out` with an error code, out of the loop of add_path: the chain
\* built so far stays unlinked.
add_path_out(b, child, chain, code) == [b EXCEPT !.ret = code]

\* Lines 791-800 for the edge just allocated.
RECURSIVE add_path_loop(_, _, _, _)
add_path_chain(b, child, edges, j) ==
    IF Stopped(b) THEN b
    ELSE IF b.head # << >>
            /\ b.edge[b.head[Len(b.head)]].right # b.edge[NewEdge(b)].left
    THEN add_path_out(b, child, Append(b.head, NewEdge(b)), TSI_ERR_NONCONTIGUOUS_EDGES)
    ELSE add_path_loop([b EXCEPT !.head = Append(@, NewEdge(b))], child, edges, j - 1)

\* The loop of add_path from index j down.
add_path_loop(b, child, edges, j) ==
    IF Stopped(b) \/ j < 0 THEN b
    ELSE IF edges[j + 1].parent >= num_nodes(b)
    THEN add_path_out(b, child, b.head, TSI_ERR_BAD_PATH_PARENT)
    ELSE IF edges[j + 1].parent < 0 THEN Die(b, "undefined_read")
    ELSE IF Time(b, edges[j + 1].parent) <= Time(b, child)
    THEN add_path_out(b, child, b.head, TSI_ERR_BAD_PATH_TIME)
    ELSE add_path_chain(
             tree_sequence_builder_alloc_edge(b, edges[j + 1].left, edges[j + 1].right,
                                              edges[j + 1].parent, child),
             child, edges, j)

\* A plausible slip: the chain linked in array order.
add_path_link_array_order(b, child, head) ==
    [b EXCEPT !.path[child + 1] = [i \in 1 .. Len(head) |-> head[Len(head) + 1 - i]]]

add_path_link(b, child, head) == [b EXCEPT !.path[child + 1] = head]

\* Lines 802-808.
add_path_compress(b, child, flags, malloc0) ==
    IF Stopped(b) THEN b
    ELSE IF TSI_COMPRESS_PATH \in flags
    THEN tree_sequence_builder_compress_path(add_path_link(b, child, b.head),
                                             child, malloc0)
    ELSE add_path_link(b, child, b.head)

tree_sequence_builder_add_path(b, child, edges, flags, malloc0) ==
    IF child >= num_nodes(b) THEN [b EXCEPT !.ret = TSI_ERR_GENERIC]
    ELSE IF child < 0 THEN Die(b, "undefined_read")
    ELSE tree_sequence_builder_index_edges(
             add_path_compress(add_path_loop(b, child, edges, Len(edges) - 1),
                               child, flags, malloc0),
             child)

(***************************************************************************)
(* Edge ids are addresses: no call reads their values, only what they      *)
(* point to.  Between calls the heap is kept in a canonical numbering: the *)
(* edges of the paths in node order, then the edges only an index holds,   *)
(* then the allocated edges left marked unindexed (child = NULL_NODE).     *)
(***************************************************************************)
Normalize(b) ==
    LET inPaths == Flatten(b.path)
        P == Range(inPaths)
        NotInP(e) == e \notin P
        extra1 == SelectSeq(b.path_index, NotInP)
        Q == P \cup Range(extra1)
        NotInQ(e) == e \notin Q
        extra2 == SelectSeq(b.left_index, NotInQ)
        R == Q \cup Range(extra2)
        NotInR(e) == e \notin R
        extra3 == SelectSeq(b.right_index, NotInR)
        S == R \cup Range(extra3)
        Detached(e) == e \notin S /\ ~b.edge[e].free /\ b.edge[e].child = NULL_NODE
        extra4 == SelectSeq([e \in 1 .. Len(b.edge) |-> e], Detached)
        keep == inPaths \o extra1 \o extra2 \o extra3 \o extra4
        newid(e) == CHOOSE i \in DOMAIN keep : keep[i] = e
        ren(s) == [i \in 1 .. Len(s) |-> newid(s[i])]
    IN  [b EXCEPT !.edge = [i \in 1 .. Len(keep) |-> b.edge[keep[i]]],
                  !.path = [u \in 1 .. Len(b.path) |-> ren(b.path[u])],
                  !.left_index = ren(b.left_index),
                  !.right_index = ren(b.right_index),
                  !.path_index = ren(b.path_index)]

(***************************************************************************)
(* The state machine.                                                      *)
(***************************************************************************)
\* The builder after tree_sequence_builder_alloc, with node arrays that
\* add_node can write to.
Init ==
    /\ time = << >>
    /\ node_flags = << >>
    /\ path = [u \in 1 .. nodes_chunk_size |-> << >>]
    /\ edge = << >>
    /\ left_index = << >>
    /\ right_index = << >>
    /\ path_index = << >>
    /\ edge_heap = 0
    /\ avl_node_heap = 0
    /\ mutations = [l \in 1 .. NumSites |-> << >>]
    /\ num_mutations = 0
    /\ left_index_edges = << >>
    /\ right_index_edges = << >>
    /\ num_edges = 0
    /\ tables = NoTables
    /\ call = [op |-> "alloc", child |-> 0, edges |-> << >>, flags |-> {}, time |-> 0,
               num_nodes |-> 0]
    /\ ret = OK
    /\ fault = NoFault
    /\ store = NoStore

\* The outcome b of a call c becomes the state.  A process that died on an
\* assertion has no state left to observe: the variables keep their values.
Install(n) ==
    /\ time' = n.time
    /\ node_flags' = n.node_flags
    /\ path' = n.path
    /\ edge' = n.edge
    /\ left_index' = n.left_index
    /\ right_index' = n.right_index
    /\ path_index' = n.path_index
    /\ edge_heap' = n.edge_heap
    /\ avl_node_heap' = n.avl_node_heap
    /\ mutations' = n.mutations
    /\ num_mutations' = n.num_mutations
    /\ left_index_edges' = n.left_index_edges
    /\ right_index_edges' = n.right_index_edges
    /\ num_edges' = n.num_edges

builder ==
    << time, node_flags, path, edge, left_index, right_index, path_index,
       edge_heap, avl_node_heap, mutations, num_mutations, left_index_edges,
       right_index_edges, num_edges >>

\* The calls other than dump leave the caller's tables alone.
Commit(b, c) ==
    /\ tables' = tables
    /\ store' = store
    /\ call' = c
    /\ fault' = b.fault
    /\ ret' = IF Faulted(b) THEN ABORT ELSE b.ret
    /\ IF Faulted(b)
       THEN UNCHANGED builder
       ELSE Install(Normalize(b))

\* The driver stops using a builder at the first error it is returned.
Usable == ret = OK

LastWas(op) == call.op = op

NodeFlagInputs == { {}, { TSI_NODE_IS_PC_ANCESTOR } }

PathFlagInputs == { {}, { TSI_COMPRESS_PATH } }

\* call.child is the id add_node returned.
AddNodeCommit(b, t, flags) ==
    Commit(b, [op |-> "add_node", child |-> b.id, edges |-> << >>,
               flags |-> flags, time |-> t, num_nodes |-> Len(time)])

AddNode(t, flags) ==
    /\ Usable
    /\ AddNodeCommit(tree_sequence_builder_add_node(self, t, flags), t, flags)

\* What malloc(0) may return where the call reaches it.
MallocZero(edges, flags) ==
    IF edges = << >> /\ TSI_COMPRESS_PATH \in flags THEN { "null", "pointer" }
    ELSE { "pointer" }

AddPath(child, edges, flags) ==
    /\ Usable
    /\ \E malloc0 \in MallocZero(edges, flags) :
           Commit(tree_sequence_builder_add_path(self, child, edges, flags, malloc0),
                  [op |-> "add_path", child |-> child, edges |-> edges,
                   flags |-> flags, time |-> 0, num_nodes |-> Len(time)])

AddMutations(node, site, derived_state) ==
    /\ Usable
    /\ Commit(tree_sequence_builder_add_mutations(self, node, site, derived_state),
              [op |-> "add_mutations", child |-> node, edges |-> << >>, flags |-> {},
               time |-> 0, num_nodes |-> Len(time)])

FreezeIndexes ==
    /\ Usable
    /\ \E malloc0 \in IF left_index = << >> THEN { "null", "pointer" } ELSE { "pointer" } :
           Commit(tree_sequence_builder_freeze_indexes(self, malloc0),
                  [op |-> "freeze_indexes", child |-> 0, edges |-> << >>, flags |-> {},
                   time |-> 0, num_nodes |-> Len(time)])

\* dump writes the caller's tables and leaves the builder alone.
Dump ==
    /\ Usable
    /\ tables' = tree_sequence_builder_dump(self)
    /\ call' = [op |-> "dump", child |-> 0, edges |-> << >>, flags |-> {}, time |-> 0,
                num_nodes |-> Len(time)]
    /\ ret' = OK
    /\ fault' = NoFault
    /\ UNCHANGED << builder, store >>

\* A builder just allocated for n sites, with node arrays that add_node can
\* write to.
fresh_builder(n) ==
    [ time |-> << >>, node_flags |-> << >>,
      path |-> [u \in 1 .. nodes_chunk_size |-> << >>], edge |-> << >>,
      left_index |-> << >>, right_index |-> << >>, path_index |-> << >>,
      edge_heap |-> 0, avl_node_heap |-> 0,
      mutations |-> [l \in 1 .. n |-> << >>], num_mutations |-> 0,
      left_index_edges |-> << >>, right_index_edges |-> << >>, num_edges |-> 0,
      head |-> << >>, id |-> NULL_NODE, fault |-> NoFault, ret |-> OK ]

\* The arrays the caller makes of the rows of a table collection.
AlleleOf(state) == IF state = "0" THEN 0 ELSE 1

MutationArgs(rows) ==
    [j \in 1 .. Len(rows) |->
        [site |-> rows[j].site, node |-> rows[j].node,
         derived_state |-> AlleleOf(rows[j].derived_state)]]

RestoreCall(op, rows) ==
    [op |-> op, child |-> 0, edges |-> rows, flags |-> {}, time |-> 0,
     num_nodes |-> Len(time)]

\* restore_nodes is called on a new builder.
RestoreNodes(n, rows) ==
    /\ Usable
    /\ Commit(tree_sequence_builder_restore_nodes(fresh_builder(n), rows),
              RestoreCall("restore_nodes", rows))

RestoreEdges(rows) ==
    /\ Usable
    /\ \E malloc0 \in IF rows = << >> /\ left_index = << >> THEN { "null", "pointer" }
                       ELSE { "pointer" } :
           Commit(tree_sequence_builder_restore_edges(self, rows, malloc0),
                  RestoreCall("restore_edges", rows))

RestoreMutations(rows) ==
    /\ Usable
    /\ Commit(tree_sequence_builder_restore_mutations(self, rows),
              RestoreCall("restore_mutations", rows))

(***************************************************************************)
(* Spec: a driver that passes add_path any arguments: any node id up to    *)
(* num_nodes (the first id that is no node) as child and parent, any pair  *)
(* of coordinates as left and right, in any order.                         *)
(***************************************************************************)
ArgEdgeInputs ==
    [left : 0 .. MaxArgCoord, right : 0 .. MaxArgCoord, parent : 0 .. Len(time)]

ArgPathInputs == UNION { [1 .. n -> ArgEdgeInputs] : n \in 0 .. MaxPathLen }

Next ==
    \/ \E t \in 0 .. MaxArgTime :
           /\ Len(time) < MaxArgNodes
           /\ AddNode(t, {})
    \/ \E child \in 0 .. Len(time) - 1, edges \in ArgPathInputs, flags \in PathFlagInputs :
           /\ edge_heap < MaxArgEdges
           /\ AddPath(child, edges, flags)
    \/ \E edges \in [1 .. 1 -> ArgEdgeInputs], flags \in PathFlagInputs :
           /\ edge_heap < MaxArgEdges
           /\ AddPath(Len(time), edges, flags)

Spec == Init /\ [][Next]_vars

(***************************************************************************)
(* SpecValid: a driver that passes add_path what the ancestor matcher      *)
(* produces: a child that has no path yet, and a path of edges with        *)
(* left < right, each to a parent older than the child, tiling an interval *)
(* from left to right (the arrays hold it from right to left).             *)
(***************************************************************************)
ValidEdgeInputs(child) ==
    { in \in [left : 0 .. MaxCoord, right : 0 .. MaxCoord, parent : 0 .. Len(time) - 1] :
        in.left < in.right /\ time[in.parent + 1] > time[child + 1] }

ValidPathInputs(child) ==
    { p \in UNION { [1 .. n -> ValidEdgeInputs(child)] : n \in 1 .. MaxPathLen } :
        \A j \in 1 .. Len(p) - 1 : p[j + 1].right = p[j].left }

NextValid ==
    \/ \E t \in 0 .. MaxTime, flags \in NodeFlagInputs :
           /\ Len(time) < MaxNodes
           /\ \A u \in 1 .. Len(time) : t <= time[u]
           /\ AddNode(t, flags)
    \/ \E child \in 0 .. Len(time) - 1 :
         \E edges \in ValidPathInputs(child), flags \in PathFlagInputs :
           /\ edge_heap < MaxEdges
           /\ path[child + 1] = << >>
           /\ AddPath(child, edges, flags)

SpecValid == Init /\ [][NextValid]_vars

(***************************************************************************)
(* SpecFreeze: a driver that passes well-formed paths, but also a second   *)
(* path for a child that has one (or an empty path), and that adds         *)
(* mutations and freezes the indexes between the calls.                    *)
(***************************************************************************)
FreezePathInputs(child) == ValidPathInputs(child) \cup { << >> }

MutationInputs(n) ==
    UNION { [1 .. k -> [site : 0 .. NumSites - 1, derived_state : 0 .. 1]] :
              k \in 1 .. n }

Sites(ms) == [j \in 1 .. Len(ms) |-> ms[j].site]

DerivedStates(ms) == [j \in 1 .. Len(ms) |-> ms[j].derived_state]

NextFreeze ==
    \/ \E t \in 0 .. MaxTime :
           /\ Len(time) < FzMaxNodes
           /\ \A u \in 1 .. Len(time) : t <= time[u]
           /\ AddNode(t, {})
    \/ \E child \in 0 .. Len(time) - 1 :
         \E edges \in FreezePathInputs(child), flags \in PathFlagInputs :
           /\ edge_heap < FzMaxEdges
           /\ AddPath(child, edges, flags)
    \/ \E node \in 0 .. Len(time) - 1, ms \in MutationInputs(MaxMutations) :
           /\ num_mutations < MaxMutations
           /\ AddMutations(node, Sites(ms), DerivedStates(ms))
    \/ FreezeIndexes

SpecFreeze == Init /\ [][NextFreeze]_vars

(***************************************************************************)
(* SpecTables: a driver that builds as in SpecValid, adds the mutations of *)
(* the node it added last, dumps the tables, restores them into a new      *)
(* builder and dumps again.                                                *)
(***************************************************************************)
Building == ~tables.written

NextTables ==
    \/ \E t \in 0 .. MaxTime :
           /\ Building
           /\ Len(time) < TbMaxNodes
           /\ \A u \in 1 .. Len(time) : t <= time[u]
           /\ AddNode(t, {})
    \/ \E child \in 0 .. Len(time) - 1 :
         \E edges \in ValidPathInputs(child), flags \in PathFlagInputs :
           /\ Building
           /\ edge_heap < TbMaxEdges
           /\ path[child + 1] = << >>
           /\ AddPath(child, edges, flags)
    \/ \E ms \in MutationInputs(TbMaxMutations) :
           /\ Building
           /\ Len(time) > 0
           /\ num_mutations = 0
           /\ AddMutations(Len(time) - 1, Sites(ms), DerivedStates(ms))
    \/ /\ LastWas("add_node") \/ LastWas("add_path") \/ LastWas("add_mutations")
          \/ LastWas("restore_mutations")
       /\ Dump
    \/ /\ LastWas("dump")
       /\ RestoreNodes(Len(tables.sites), tables.nodes)
    \/ /\ LastWas("restore_nodes")
       /\ RestoreEdges(tables.edges)
    \/ /\ LastWas("restore_edges")
       /\ RestoreMutations(MutationArgs(tables.mutations))

SpecTables == Init /\ [][NextTables]_vars

(***************************************************************************)
(* SpecTimes: a driver as in SpecValid that adds the nodes in any order of *)
(* time, with times that may lie more than one unit apart.                 *)
(***************************************************************************)
TimeInputs == { 0, 1, OneUnit + 2 }

NextTimes ==
    \/ \E t \in TimeInputs :
           /\ Len(time) < TmMaxNodes
           /\ AddNode(t, {})
    \/ \E child \in 0 .. Len(time) - 1 :
         \E edges \in ValidPathInputs(child), flags \in PathFlagInputs :
           /\ edge_heap < TmMaxEdges
           /\ path[child + 1] = << >>
           /\ AddPath(child, edges, flags)

SpecTimes == Init /\ [][NextTimes]_vars

(***************************************************************************)
(* SpecAlloc: tree_sequence_builder_alloc as the source has it, called on  *)
(* a builder that holds nothing, for a site table of up to MaxSiteRows     *)
(* rows.  alleles[j] is "null" or "set".                                   *)
(***************************************************************************)
RECURSIVE CountNull(_)
CountNull(alleles) ==
    IF alleles = << >> THEN 0
    ELSE (IF Head(alleles) = "null" THEN 1 ELSE 0) + CountNull(Tail(alleles))

\* What the pointers of the builder are when alloc tests them: time and
\* node_flags are as memset left them, path and sites.mutations are what
\* calloc returned.
alloc_pointers(n, malloc0) ==
    [ time |-> "null", node_flags |-> "null", path |-> "pointer",
      mutations |-> IF n = 0 THEN malloc0 ELSE "pointer" ]

alloc_tested(b, pointers) ==
    IF \/ pointers.time = "null"
       \/ pointers.node_flags = "null"
       \/ pointers.path = "null"
       \/ pointers.mutations = "null"
    THEN [b EXCEPT !.ret = TSI_ERR_NO_MEMORY]
    ELSE b

tree_sequence_builder_alloc(alleles, malloc0) ==
    alloc_tested(fresh_builder(CountNull(alleles)),
                 alloc_pointers(CountNull(alleles), malloc0))

InitAlloc ==
    /\ time = << >>
    /\ node_flags = << >>
    /\ path = << >>
    /\ edge = << >>
    /\ left_index = << >>
    /\ right_index = << >>
    /\ path_index = << >>
    /\ edge_heap = 0
    /\ avl_node_heap = 0
    /\ mutations = << >>
    /\ num_mutations = 0
    /\ left_index_edges = << >>
    /\ right_index_edges = << >>
    /\ num_edges = 0
    /\ tables = NoTables
    /\ call = RestoreCall("none", << >>)
    /\ ret = OK
    /\ fault = NoFault
    /\ store = NoStore

Alloc(alleles) ==
    /\ LastWas("none")
    /\ \E malloc0 \in { "null", "pointer" } :
           Commit(tree_sequence_builder_alloc(alleles, malloc0),
                  RestoreCall("alloc", alleles))

AllelesInputs == UNION { [1 .. n -> { "null", "set" }] : n \in 0 .. MaxSiteRows }

NextAlloc == \E alleles \in AllelesInputs : Alloc(alleles)

SpecAlloc == InitAlloc /\ [][NextAlloc]_vars

(***************************************************************************)
(* SpecRestore: a driver that restores any node rows into a new builder    *)
(* and then any edge rows between those nodes.                             *)
(***************************************************************************)
NodeRowInputs ==
    UNION { [1 .. n -> [time : 0 .. RsMaxTime, flags : { {} }]] : n \in 0 .. RsMaxNodes }

EdgeRowInputs ==
    UNION { [1 .. n -> [left : 0 .. RsMaxCoord, right : 0 .. RsMaxCoord,
                        parent : 0 .. Len(time) - 1, child : 0 .. Len(time) - 1]] :
              n \in 0 .. RsMaxEdges }

NextRestore ==
    \/ \E rows \in NodeRowInputs :
           /\ LastWas("alloc")
           /\ RestoreNodes(NumSites, rows)
    \/ \E rows \in EdgeRowInputs :
           /\ LastWas("restore_nodes")
           /\ RestoreEdges(rows)

SpecRestore == Init /\ [][NextRestore]_vars

(***************************************************************************)
(* SpecRestoreRows: a driver that restores any node rows into a new        *)
(* builder and then edge rows with left < right, each from a child to an   *)
(* older parent, in any order.                                             *)
(***************************************************************************)
WellFormedRowInputs ==
    UNION { [1 .. n -> { r \in [left : 0 .. RwMaxCoord, right : 0 .. RwMaxCoord,
                                 parent : 0 .. Len(time) - 1, child : 0 .. Len(time) - 1] :
                           r.left < r.right /\ time[r.parent + 1] > time[r.child + 1] }] :
              n \in 0 .. RwMaxEdges }

NextRestoreRows ==
    \/ \E rows \in NodeRowInputs :
           /\ LastWas("alloc")
           /\ RestoreNodes(NumSites, rows)
    \/ \E rows \in WellFormedRowInputs :
           /\ LastWas("restore_nodes")
           /\ RestoreEdges(rows)

SpecRestoreRows == Init /\ [][NextRestoreRows]_vars

(***************************************************************************)
(* SpecMutations: a driver that adds nodes and, in any order, the          *)
(* mutations of a node (add_mutations) and mutations of any nodes          *)
(* (restore_mutations), with any derived state in { 0, 1 }.                *)
(***************************************************************************)
MutationRowInputs ==
    UNION { [1 .. k -> [site : 0 .. NumSites - 1, node : 0 .. Len(time) - 1,
                        derived_state : 0 .. 1]] : k \in 1 .. MuMaxPerCall }

NextMutations ==
    \/ /\ Len(time) < MuMaxNodes
       /\ AddNode(0, {})
    \/ \E node \in 0 .. Len(time) - 1, ms \in MutationInputs(MuMaxPerCall) :
           /\ num_mutations < MuMaxStored
           /\ AddMutations(node, Sites(ms), DerivedStates(ms))
    \/ \E rows \in MutationRowInputs :
           /\ num_mutations < MuMaxStored
           /\ RestoreMutations(rows)

SpecMutations == Init /\ [][NextMutations]_vars

(***************************************************************************)
(* SpecIds: a driver that passes add_path edges with left < right and any  *)
(* value as child and parent: negative values, node ids, and num_nodes.    *)
(***************************************************************************)
IdEdgeInputs ==
    { in \in [left : 0 .. IdMaxCoord, right : 0 .. IdMaxCoord,
               parent : -MaxNegativeIds .. Len(time)] : in.left < in.right }

IdPathInputs == UNION { [1 .. n -> IdEdgeInputs] : n \in 0 .. MaxPathLen }

NextIds ==
    \/ \E t \in 0 .. MaxArgTime :
           /\ Len(time) < IdMaxNodes
           /\ AddNode(t, {})
    \/ \E child \in -MaxNegativeIds .. Len(time), edges \in IdPathInputs, flags \in PathFlagInputs :
           /\ edge_heap < IdMaxEdges
           /\ AddPath(child, edges, flags)

SpecIds == Init /\ [][NextIds]_vars

(***************************************************************************)
(* SpecContigs: a driver as in SpecValid that passes longer paths, each a  *)
(* run of edges of length one from coordinate 0 on, so that one path can   *)
(* match several runs of the edges of older children.                      *)
(***************************************************************************)
\* The arrays of the path whose edge k (in array order) has parent ps[k].
UnitPath(ps) ==
    [k \in 1 .. Len(ps) |->
        [left |-> Len(ps) - k, right |-> Len(ps) - k + 1, parent |-> ps[k]]]

OlderNodes(child) == { u \in 0 .. Len(time) - 1 : time[u + 1] > time[child + 1] }

ContigPathInputs(child) ==
    { UnitPath(ps) : ps \in UNION { [1 .. n -> OlderNodes(child)] : n \in 1 .. CgMaxPathLen } }

NextContigs ==
    \/ \E t \in { 0, MaxTime } :
           /\ Len(time) < CgMaxNodes
           /\ \A u \in 1 .. Len(time) : t <= time[u]
           /\ AddNode(t, {})
    \/ \E child \in 0 .. Len(time) - 1 :
         \E edges \in ContigPathInputs(child), flags \in PathFlagInputs :
           /\ edge_heap <= CgMaxEdges
           /\ path[child + 1] = << >>
           /\ AddPath(child, edges, flags)

SpecContigs == Init /\ [][NextContigs]_vars

(***************************************************************************)
(* SpecStore: the ancestor store (lib/ancestor_store.c).                   *)
(*  - An array of the store is the sequence of its entries; entry j of the *)
(*    C array is element j + 1.                                            *)
(*  - ancestors.num_older_ancestors comes from malloc: the sequence holds  *)
(*    the entries written so far.  ancestors.focal_sites[j] is "null",     *)
(*    "uninitialized" or the offset of a pointer into focal_sites_mem.     *)
(*  - uint32_t is AgeWidth bits wide here, UINT32_MAX == 2^AgeWidth - 1.   *)
(*  - total_memory is left out.                                            *)
(***************************************************************************)
UINT32_MAX == 2 ^ AgeWidth - 1

uint32(x) == x % (2 ^ AgeWidth)

\* Lines 133-158: the store after the arrays are allocated and copied into.
store_arrays(in) ==
    [ num_sites |-> Len(in.position),
      num_ancestors |-> Len(in.ancestor_age),
      sites |-> [l \in 1 .. Len(in.position) |->
                     [position |-> 0, start |-> << >>, end |-> << >>, num_segments |-> 0]],
      ancestors |->
          [ num_older_ancestors |-> << 0 >>,
            num_focal_sites |-> [j \in 1 .. Len(in.ancestor_age) |-> 0],
            focal_sites |-> [j \in 1 .. Len(in.ancestor_age) |->
                                 IF j = 1 THEN "null" ELSE "uninitialized"],
            age |-> [j \in 1 .. Len(in.ancestor_age) |->
                         IF j = 1 THEN UINT32_MAX ELSE in.ancestor_age[j]],
            focal_sites_mem |-> in.focal_site ],
      epochs |-> [first_ancestor |-> << >>, num_ancestors |-> << >>],
      num_epochs |-> 0,
      total_segments |-> 0,
      max_num_site_segments |-> 0,
      seg_num_ancestors |-> 0,
      fault |-> NoFault, ret |-> OK ]

\* Lines 159-167.  A write past the end of the ancestor arrays is undefined.
RECURSIVE focal_sites_loop(_, _, _, _)
focal_sites_loop(s, focal_site_ancestor, k, ancestor_id) ==
    IF k = Len(focal_site_ancestor) THEN s
    ELSE IF ancestor_id # focal_site_ancestor[k + 1]
    THEN IF focal_site_ancestor[k + 1] # ancestor_id + 1
         THEN [s EXCEPT !.fault = "assert_focal_site_ancestor"]
         ELSE IF ancestor_id + 1 >= s.num_ancestors
         THEN [s EXCEPT !.fault = "undefined_write"]
         ELSE focal_sites_loop(
                  [s EXCEPT !.ancestors.focal_sites[ancestor_id + 2] = k,
                            !.ancestors.num_focal_sites[ancestor_id + 2] = @ + 1],
                  focal_site_ancestor, k + 1, ancestor_id + 1)
    ELSE focal_sites_loop(
             [s EXCEPT !.ancestors.num_focal_sites[ancestor_id + 1] = @ + 1],
             focal_site_ancestor, k + 1, ancestor_id)

\* Lines 182-184.
RECURSIVE site_end_scan(_, _, _)
site_end_scan(site, site_end, l) ==
    IF site_end < Len(site) /\ site[site_end + 1] = l
    THEN site_end_scan(site, site_end + 1, l)
    ELSE site_end

RECURSIVE MaxEnd(_, _)
MaxEnd(ends, seg_num_ancestors) ==
    IF ends = << >> THEN seg_num_ancestors
    ELSE MaxEnd(Tail(ends), IF Head(ends) > seg_num_ancestors
                            THEN Head(ends) ELSE seg_num_ancestors)

\* Lines 185-208: the segments site_start .. site_end - 1 become those of site l.
copy_site_segments(s, in, l, site_start, site_end) ==
    [s EXCEPT !.max_num_site_segments =
                  IF site_end - site_start > @ THEN site_end - site_start ELSE @,
              !.sites[l + 1].start = SubSeq(in.start, site_start + 1, site_end),
              !.sites[l + 1].end = SubSeq(in.end, site_start + 1, site_end),
              !.sites[l + 1].num_segments = site_end - site_start,
              !.total_segments = @ + site_end - site_start,
              !.seg_num_ancestors = MaxEnd(SubSeq(in.end, site_start + 1, site_end), @)]

\* Lines 173-210.  site_start equals site_end whenever a site is entered.
RECURSIVE store_sites_loop(_, _, _, _, _)
store_sites_loop(s, in, l, site_start, malloc0) ==
    IF Faulted(s) \/ l = s.num_sites THEN s
    ELSE IF l > 0 /\ ~(in.position[l + 1] > in.position[l])
    THEN [s EXCEPT !.fault = "assert_position"]
    ELSE IF site_start >= Len(in.site)
    THEN store_sites_loop([s EXCEPT !.sites[l + 1].position = in.position[l + 1]],
                          in, l + 1, site_start, malloc0)
    ELSE IF ~(in.site[site_start + 1] >= l)
    THEN [s EXCEPT !.fault = "assert_site"]
    ELSE IF site_end_scan(in.site, site_start, l) = site_start /\ malloc0 = "null"
    THEN [s EXCEPT !.sites[l + 1].position = in.position[l + 1],
                   !.ret = TSI_ERR_NO_MEMORY]
    ELSE store_sites_loop(
             copy_site_segments(
                 [s EXCEPT !.sites[l + 1].position = in.position[l + 1]],
                 in, l, site_start, site_end_scan(in.site, site_start, l)),
             in, l + 1, site_end_scan(in.site, site_start, l), malloc0)

\* Lines 213-220.
RECURSIVE count_epochs(_, _, _, _)
count_epochs(age, j, current_age, num_epochs) ==
    IF j = Len(age) THEN num_epochs
    ELSE IF age[j + 1] # current_age
    THEN count_epochs(age, j + 1, age[j + 1], num_epochs + 1)
    ELSE count_epochs(age, j + 1, current_age, num_epochs)

\* Lines 234-243.  current_epoch is the C index; epoch e is element e + 1.
RECURSIVE assign_epochs(_, _, _, _, _)
assign_epochs(s, j, current_age, current_epoch, num_older_ancestors) ==
    IF j = s.num_ancestors THEN s
    ELSE IF s.ancestors.age[j + 1] < current_age
    THEN assign_epochs(
             [s EXCEPT !.epochs.first_ancestor[current_epoch] = j,
                       !.epochs.num_ancestors[current_epoch] = @ + 1,
                       !.ancestors.num_older_ancestors = Append(@, j)],
             j + 1, s.ancestors.age[j + 1], current_epoch - 1, j)
    ELSE assign_epochs(
             [s EXCEPT !.epochs.num_ancestors[current_epoch + 1] = @ + 1,
                       !.ancestors.num_older_ancestors = Append(@, num_older_ancestors)],
             j + 1, current_age, current_epoch, num_older_ancestors)

\* Lines 221-233: the epoch arrays come zeroed from calloc; the root
\* ancestor takes the last epoch.
store_epoch_arrays(s, num_epochs) ==
    [s EXCEPT !.num_epochs = num_epochs,
              !.epochs = [first_ancestor |-> [e \in 1 .. num_epochs |-> 0],
                          num_ancestors |-> [e \in 1 .. num_epochs |->
                                                 IF e = num_epochs THEN 1 ELSE 0]]]

\* Lines 245-246.
store_checked(s, num_segments) ==
    IF s.total_segments # num_segments
    THEN [s EXCEPT !.fault = "assert_total_segments"]
    ELSE IF s.seg_num_ancestors # s.num_ancestors
    THEN [s EXCEPT !.fault = "assert_seg_num_ancestors"]
    ELSE s

\* Lines 212-246.  current_age starts at age[1] + 1, a uint32_t sum.
store_epochs(s, num_segments) ==
    IF Faulted(s) \/ s.ret # OK THEN s
    ELSE IF ~(s.num_ancestors > 1)
    THEN [s EXCEPT !.fault = "assert_num_ancestors"]
    ELSE store_checked(
             assign_epochs(store_epoch_arrays(s, count_epochs(s.ancestors.age, 0, 0, 1)),
                           1, uint32(s.ancestors.age[2] + 1),
                           count_epochs(s.ancestors.age, 0, 0, 1) - 1, 0),
             num_segments)

ancestor_store_alloc(in, malloc0) ==
    IF \/ ~(Len(in.position) > 0)
       \/ ~(Len(in.ancestor_age) > 0)
       \/ ~(Len(in.focal_site) > 0)
       \/ ~(Len(in.focal_site) <= Len(in.position))
       \/ ~(Len(in.site) > 0)
    THEN [fault |-> "assert_alloc_arguments", ret |-> OK]
    ELSE store_epochs(
             store_sites_loop(
                 focal_sites_loop(store_arrays(in), in.focal_site_ancestor, 0, 0),
                 in, 0, 0, malloc0),
             Len(in.site))

\* Lines 337-343: the ancestors written to epoch_ancestors.
ancestor_store_get_epoch_ancestors(s, epoch) ==
    [j \in 1 .. s.epochs.num_ancestors[epoch + 1] |->
         s.epochs.first_ancestor[epoch + 1] + j - 1]

\* Lines 23-30 and 51-60 of ancestor_store_check_state: the assertion that
\* fails, if one does.  The assertions of lines 31-50 hold of every store,
\* as ancestor_store_get_state writes 0 or 1 at every site.
ancestor_store_check_state(s) ==
    IF \E e \in 1 .. s.num_epochs - 1 :
           ~(Len(ancestor_store_get_epoch_ancestors(s, e)) > 0)
    THEN "assert_num_epoch_ancestors"
    ELSE IF \E e \in 1 .. s.num_epochs - 1 :
                \E k \in 1 .. Len(ancestor_store_get_epoch_ancestors(s, e)) :
                    s.ancestors.age[ancestor_store_get_epoch_ancestors(s, e)[1] + 1]
                        # s.ancestors.age[ancestor_store_get_epoch_ancestors(s, e)[k] + 1]
    THEN "assert_epoch_age"
    ELSE NoFault

StoreCall(op, epoch, rows) ==
    [op |-> op, child |-> epoch, edges |-> rows, flags |-> {}, time |-> 0,
     num_nodes |-> Len(time)]

\* The process before ancestor_store_alloc.
InitStore ==
    /\ InitAlloc

\* ancestor_store_alloc on the store of the process, once.  The num_
\* arguments are the lengths of the arrays passed.
AncestorStoreAlloc(in) ==
    /\ \E malloc0 \in { "null", "pointer" } :
           /\ fault' = ancestor_store_alloc(in, malloc0).fault
           /\ ret' = IF Faulted(ancestor_store_alloc(in, malloc0))
                     THEN ABORT ELSE ancestor_store_alloc(in, malloc0).ret
           /\ store' = IF Faulted(ancestor_store_alloc(in, malloc0))
                       THEN store ELSE ancestor_store_alloc(in, malloc0)
    /\ call' = StoreCall("ancestor_store_alloc", 0, in.ancestor_age)
    /\ UNCHANGED << builder, tables >>

\* ancestor_store_get_epoch_ancestors; call.edges is what it wrote to
\* epoch_ancestors.
GetEpochAncestors(epoch) ==
    /\ Usable
    /\ ~LastWas("none")
    /\ IF epoch > 0 /\ epoch < store.num_epochs
       THEN /\ call' = StoreCall("get_epoch_ancestors", epoch,
                                 ancestor_store_get_epoch_ancestors(store, epoch))
            /\ ret' = OK
            /\ fault' = NoFault
       ELSE /\ call' = StoreCall("get_epoch_ancestors", epoch, << >>)
            /\ ret' = ABORT
            /\ fault' = "assert_epoch"
    /\ UNCHANGED << builder, tables, store >>

\* ancestor_store_print_state, which runs ancestor_store_check_state.
PrintState ==
    /\ Usable
    /\ ~LastWas("none")
    /\ call' = StoreCall("print_state", 0, << >>)
    /\ fault' = ancestor_store_check_state(store)
    /\ ret' = IF ancestor_store_check_state(store) = NoFault THEN OK ELSE ABORT
    /\ UNCHANGED << builder, tables, store >>

AgeInputs == UNION { [1 .. n -> 0 .. UINT32_MAX] : n \in 1 .. StMaxAncestors }

PositionInputs == UNION { [1 .. n -> 0 .. 1] : n \in 1 .. StMaxSites }

FocalSiteAncestorInputs ==
    UNION { [1 .. n -> 0 .. StMaxFocalSites] : n \in 1 .. StMaxFocalSites }

SegmentInputs ==
    UNION { [1 .. n -> [site : 0 .. StMaxSites - 1, short : 0 .. 1]]
                : n \in 1 .. StMaxSegments }

\* Focal site k is site k; every segment starts at ancestor 0 and ends at
\* the last ancestor or the one before it.
StoreInputs(ancestor_age, position, focal_site_ancestor, segments) ==
    [ ancestor_age |-> ancestor_age,
      position |-> position,
      focal_site_ancestor |-> focal_site_ancestor,
      focal_site |-> [k \in 1 .. Len(focal_site_ancestor) |-> k - 1],
      site |-> [k \in 1 .. Len(segments) |-> segments[k].site],
      start |-> [k \in 1 .. Len(segments) |-> 0],
      end |-> [k \in 1 .. Len(segments) |-> Len(ancestor_age) - segments[k].short] ]

NextStore ==
    \/ /\ LastWas("none")
       /\ \E ancestor_age \in AgeInputs, position \in PositionInputs,
             focal_site_ancestor \in FocalSiteAncestorInputs,
             segments \in SegmentInputs :
              AncestorStoreAlloc(StoreInputs(ancestor_age, position, focal_site_ancestor,
                                             segments))
    \/ \E epoch \in 0 .. StMaxAncestors + 1 : GetEpochAncestors(epoch)
    \/ PrintState

SpecStore == InitStore /\ [][NextStore]_vars

(***************************************************************************)
(* What the claims speak of.                                               *)
(***************************************************************************)
Reverse(s) == [i \in 1 .. Len(s) |-> s[Len(s) + 1 - i]]

Nodes == 0 .. Len(time) - 1

\* The edges reachable from the path heads.
LiveEdges == Range(Flatten(path))

TotalEdges == SumLen(path)

Triple(r) == [left |-> r.left, right |-> r.right, parent |-> r.parent]

\* path(u) as the code would print it, and as (left, right, parent) triples.
PathRecordsIn(p, es, u) == [i \in 1 .. Len(p[u + 1]) |-> es[p[u + 1][i]]]

PathRecords(u) == PathRecordsIn(path, edge, u)

PathTriplesIn(p, es, u) == [i \in 1 .. Len(p[u + 1]) |-> Triple(es[p[u + 1][i]])]

PathTriples(u) == PathTriplesIn(path, edge, u)

Compressing == TSI_COMPRESS_PATH \in call.flags

\* C1: between calls, after add_node calls and successful add_path calls,
\* each of the three indexes has as many entries as the paths have edges.
C1_IndexCounts ==
    ret = OK =>
        /\ Len(left_index) = TotalEdges
        /\ Len(right_index) = TotalEdges
        /\ Len(path_index) = TotalEdges

\* C2: between calls, after add_node calls and successful add_path calls,
\* every edge of a path is in each of the three indexes (found there under
\* its current values), and every index entry is an edge of some path.
InIndex(idx, which, e) ==
    \E i \in 1 .. Len(idx) : Cmp(which, edge[e], edge[idx[i]]) = 0 /\ idx[i] = e

C2_IndexesMirrorPaths ==
    ret = OK =>
        /\ \A e \in LiveEdges :
              /\ InIndex(left_index, "left", e)
              /\ InIndex(right_index, "right", e)
              /\ InIndex(path_index, "path", e)
        /\ Range(left_index) \subseteq LiveEdges
        /\ Range(right_index) \subseteq LiveEdges
        /\ Range(path_index) \subseteq LiveEdges

\* C3: between calls, after add_node calls and successful add_path calls
\* (with or without COMPRESS_PATH), every edge of a path has a parent
\* strictly older than its child.
C3_ParentOlderThanChild ==
    ret = OK =>
        \A e \in LiveEdges :
            /\ edge[e].parent \in Nodes
            /\ edge[e].child \in Nodes
            /\ time[edge[e].parent + 1] > time[edge[e].child + 1]

\* C4: between calls, after add_node calls and successful add_path calls,
\* the edges of path(c) have child c, increasing left, and each edge's right
\* is the next edge's left.
C4_PathsSortedContiguous ==
    ret = OK =>
        \A c \in Nodes :
            /\ \A i \in 1 .. Len(path[c + 1]) : edge[path[c + 1][i]].child = c
            /\ \A i \in 1 .. Len(path[c + 1]) - 1 :
                  /\ edge[path[c + 1][i]].left < edge[path[c + 1][i + 1]].left
                  /\ edge[path[c + 1][i]].right = edge[path[c + 1][i + 1]].left

\* Sanity of the representation: every index is strictly ordered by its
\* comparison, no path or index holds a freed edge, and no call of the
\* specifications reads freed memory or outside the node arrays.
IndexOrdered(idx, which) ==
    \A i \in 1 .. Len(idx) - 1 : Cmp(which, edge[idx[i]], edge[idx[i + 1]]) < 0

ModelSane ==
    /\ IndexOrdered(left_index, "left")
    /\ IndexOrdered(right_index, "right")
    /\ IndexOrdered(path_index, "path")
    /\ \A e \in 1 .. Len(edge) : ~edge[e].free
    /\ fault \notin { "use_after_free", "undefined_read", "ambiguous_match" }

(***************************************************************************)
(* The argument checks of add_path, read off one call: c is the call, the  *)
(* node table is the one before the call.  Position j of c.edges is the    *)
(* array entry j - 1; the path runs from the last entry to the first.      *)
(***************************************************************************)
BadParentAt(c, j) == c.edges[j].parent >= Len(time)

BadTimeAt(c, j) ==
    /\ ~BadParentAt(c, j)
    /\ time[c.edges[j].parent + 1] <= time[c.child + 1]

NonContiguousAt(c, j) ==
    /\ j < Len(c.edges)
    /\ c.edges[j + 1].right # c.edges[j].left

CheckFailsAt(c, j) == BadParentAt(c, j) \/ BadTimeAt(c, j) \/ NonContiguousAt(c, j)

SomeCheckFails(c) == \E j \in 1 .. Len(c.edges) : CheckFailsAt(c, j)

\* The first failing entry in path order is the failing one with the largest
\* array index.
FirstFailing(c) ==
    CHOOSE j \in 1 .. Len(c.edges) :
        /\ CheckFailsAt(c, j)
        /\ \A k \in 1 .. Len(c.edges) : CheckFailsAt(c, k) => k <= j

ErrorAt(c, j) ==
    IF BadParentAt(c, j) THEN TSI_ERR_BAD_PATH_PARENT
    ELSE IF BadTimeAt(c, j) THEN TSI_ERR_BAD_PATH_TIME
    ELSE TSI_ERR_NONCONTIGUOUS_EDGES

\* The records the call's edges become, and whether one of them compares
\* equal, in the order of an index, to an indexed edge or to another of them.
NewRecord(c, j) ==
    [left |-> c.edges[j].left, right |-> c.edges[j].right,
     parent |-> c.edges[j].parent, child |-> c.child, time |-> time[c.child + 1]]

KeyCollision(c) ==
    \E j \in 1 .. Len(c.edges) :
        \/ \E i \in 1 .. Len(left_index) :
               Cmp("left", NewRecord(c, j), edge[left_index[i]]) = 0
        \/ \E i \in 1 .. Len(right_index) :
               Cmp("right", NewRecord(c, j), edge[right_index[i]]) = 0
        \/ \E i \in 1 .. Len(path_index) :
               Cmp("path", NewRecord(c, j), edge[path_index[i]]) = 0
        \/ \E k \in 1 .. Len(c.edges) :
               /\ k # j
               /\ \/ Cmp("left", NewRecord(c, j), NewRecord(c, k)) = 0
                  \/ Cmp("right", NewRecord(c, j), NewRecord(c, k)) = 0

ValidationErrors ==
    { TSI_ERR_BAD_PATH_PARENT, TSI_ERR_BAD_PATH_TIME, TSI_ERR_NONCONTIGUOUS_EDGES }

ClaimedErrors == ValidationErrors \cup { TSI_ERR_NO_MEMORY }

\* C5: a successful add_path without COMPRESS_PATH makes path(child) the
\* input triples in path order (the reverse of the array order), each edge
\* with child `child`, adds no node, and leaves every other path as it was.
C5_PathIsInput ==
    [][ ( /\ call'.op = "add_path"
          /\ ret' = OK
          /\ TSI_COMPRESS_PATH \notin call'.flags )
        => /\ PathTriplesIn(path', edge', call'.child) = Reverse(call'.edges)
           /\ \A i \in 1 .. Len(call'.edges) :
                  edge'[path'[call'.child + 1][i]].child = call'.child
           /\ time' = time
           /\ node_flags' = node_flags
           /\ \A u \in Nodes : u # call'.child => PathRecordsIn(path', edge', u) = PathRecords(u)
      ]_vars

C5_Witness ==
    /\ LastWas("add_path")
    /\ ret = OK
    /\ ~Compressing
    /\ Len(call.edges) = 2
    /\ call.edges[1].parent # call.edges[2].parent \/ call.edges[1].left # call.edges[2].left
    /\ \E u \in Nodes : u # call.child /\ path[u + 1] # << >>

PathOrder(c) == Reverse(c.edges)

\* The child of the indexed edge find_match returns for entry j of the path:
\* of the indexed edges with the same (left, right, parent), the one of the
\* smallest child.
MatchChild(c, j) ==
    LET same == { i \in DOMAIN path_index :
                      SameTriple(edge[path_index[i]], PathOrder(c)[j]) }
        children == { edge[path_index[i]].child : i \in same }
    IN  IF children = {} THEN NULL_NODE
        ELSE CHOOSE x \in children : \A y \in children : x <= y

\* Entries i .. j of the path are one contig: consecutive entries matched to
\* one child, and the run cannot be extended.
SameMatch(c, i, j) ==
    /\ MatchChild(c, i) # NULL_NODE
    /\ \A k \in i .. j :
           /\ MatchChild(c, k) = MatchChild(c, i)
           /\ k > i => PathOrder(c)[k].left = PathOrder(c)[k - 1].right

Contigs(c) ==
    { r \in (1 .. Len(c.edges)) \X (1 .. Len(c.edges)) :
        /\ r[1] <= r[2]
        /\ SameMatch(c, r[1], r[2])
        /\ r[1] > 1 => ~SameMatch(c, r[1] - 1, r[2])
        /\ r[2] < Len(c.edges) => ~SameMatch(c, r[1], r[2] + 1) }

IsPc(u) == TSI_NODE_IS_PC_ANCESTOR \in node_flags[u + 1]

\* The contigs that compression acts on, by the kind of the shared child.
ReuseContigs(c) == { r \in Contigs(c) : r[2] > r[1] /\ IsPc(MatchChild(c, r[1])) }

SynthContigs(c) == { r \in Contigs(c) : r[2] > r[1] /\ ~IsPc(MatchChild(c, r[1])) }

\* Minimum parent time of the entries of contig r, minus epsilon.
ContigTime(c, r) ==
    LET times == { time[PathOrder(c)[k].parent + 1] : k \in r[1] .. r[2] }
    IN  (CHOOSE t \in times : \A t2 \in times : t <= t2) - PC_ANCESTOR_INCREMENT

\* Adjacent triples with one parent merged, left to right.
RECURSIVE SquashTriples(_)
SquashTriples(ts) ==
    IF Len(ts) <= 1 THEN ts
    ELSE LET rest == SquashTriples(Tail(ts))
             a == Head(ts)
             b == Head(rest)
         IN  IF a.right = b.left /\ a.parent = b.parent
             THEN << [b EXCEPT !.left = a.left] >> \o Tail(rest)
             ELSE << a >> \o rest

\* The records an index holds, in its order.
IndexRecordsIn(idx, es) == [i \in 1 .. Len(idx) |-> es[idx[i]]]

\* The path of call c is, entry for entry, the run of path(X) from position
\* i on.
RunOf(c, X, i) ==
    /\ i + Len(c.edges) - 1 <= Len(path[X + 1])
    /\ \A k \in 1 .. Len(c.edges) : PathTriples(X)[i + k - 1] = PathOrder(c)[k]

CompressCall(c) == c.op = "add_path" /\ TSI_COMPRESS_PATH \in c.flags

\* The time check of a new PC ancestor for the whole path of c over child X:
\* the least of time(0) + 1 and the parents' times, minus epsilon, is above
\* the time of X.
TimeCheckPasses(c, X) ==
    LET times == { time[c.edges[k].parent + 1] : k \in 1 .. Len(c.edges) }
                     \cup { time[1] + OneUnit }
    IN  (CHOOSE t \in times : \A t2 \in times : t <= t2) - PC_ANCESTOR_INCREMENT
            > time[X + 1]

\* What C8 expects of the step when the path of c is the run of X from i.
SynthesizedFor(c, X, i) ==
    LET p == Len(time)
        k == Len(c.edges)
        whole == [left |-> PathOrder(c)[1].left, right |-> PathOrder(c)[k].right,
                  parent |-> p]
    IN  /\ ret' = OK
        /\ Len(time') = Len(time) + 1
        /\ node_flags'[p + 1] = { TSI_NODE_IS_PC_ANCESTOR }
        /\ PathTriplesIn(path', edge', p) = SquashTriples(PathOrder(c))
        /\ \A e \in Range(path'[p + 1]) : edge'[e].child = p
        /\ PathTriplesIn(path', edge', c.child) = << whole >>
        /\ PathTriplesIn(path', edge', X)
               = SubSeq(PathTriples(X), 1, i - 1) \o << whole >>
                     \o SubSeq(PathTriples(X), i + k, Len(path[X + 1]))

C9_PcReuse ==
    [][ ( /\ CompressCall(call')
          /\ call'.child \in Nodes
          /\ path[call'.child + 1] = << >>
          /\ ReuseContigs(call') # {}
          /\ SynthContigs(call') = {} )
        => LET c == call'
               InReuse(j) == \E r \in ReuseContigs(c) : j \in r[1] .. r[2]
               redirected == [j \in 1 .. Len(c.edges) |->
                                 IF InReuse(j)
                                 THEN [PathOrder(c)[j] EXCEPT !.parent = MatchChild(c, j)]
                                 ELSE PathOrder(c)[j]]
               Old(r) == r.child # c.child
           IN  /\ ret' = OK
               /\ time' = time
               /\ node_flags' = node_flags
               /\ \A u \in Nodes : u # c.child =>
                      PathRecordsIn(path', edge', u) = PathRecords(u)
               /\ SelectSeq(IndexRecordsIn(left_index', edge'), Old)
                      = IndexRecordsIn(left_index, edge)
               /\ SelectSeq(IndexRecordsIn(right_index', edge'), Old)
                      = IndexRecordsIn(right_index, edge)
               /\ SelectSeq(IndexRecordsIn(path_index', edge'), Old)
                      = IndexRecordsIn(path_index, edge)
               /\ PathTriplesIn(path', edge', c.child) = SquashTriples(redirected)
      ]_vars

\* A compressing add_path of two edges that made no node and left the child
\* on one edge to a PC ancestor that has the two edges.
C9_Witness ==
    /\ CompressCall(call)
    /\ ret = OK
    /\ Len(call.edges) = 2
    /\ Len(time) = call.num_nodes
    /\ Len(path[call.child + 1]) = 1
    /\ \E X \in Nodes :
           /\ IsPc(X)
           /\ edge[path[call.child + 1][1]].parent = X
           /\ PathTriples(X) = PathOrder(call)

\* C10: when the first contig of a compressing add_path that calls for a new
\* PC ancestor has a computed time, the minimum parent time of its edges
\* minus epsilon, at or below the time of the shared child, the call returns
\* ASSERTION_FAILURE, no node is added, and every path and index entry that
\* existed is as it was.
C10_PcTimeCheck ==
    [][ ( /\ CompressCall(call')
          /\ call'.child \in Nodes
          /\ path[call'.child + 1] = << >>
          /\ \E r \in SynthContigs(call') :
                 /\ \A r2 \in SynthContigs(call') : r[1] <= r2[1]
                 /\ ContigTime(call', r) <= time[MatchChild(call', r[1]) + 1] )
        => /\ ret' = TSI_ERR_ASSERTION_FAILURE
           /\ time' = time
           /\ node_flags' = node_flags
           /\ \A u \in Nodes : u # call'.child =>
                  PathRecordsIn(path', edge', u) = PathRecords(u)
           /\ IndexRecordsIn(left_index', edge') = IndexRecordsIn(left_index, edge)
           /\ IndexRecordsIn(right_index', edge') = IndexRecordsIn(right_index, edge)
           /\ IndexRecordsIn(path_index', edge') = IndexRecordsIn(path_index, edge)
      ]_vars

\* The call failed on the time of a PC ancestor for an older child that has
\* the same two edges.
C10_Witness ==
    /\ CompressCall(call)
    /\ ret = TSI_ERR_ASSERTION_FAILURE
    /\ Len(call.edges) = 2
    /\ Len(time) = call.num_nodes
    /\ \E X \in Nodes :
           /\ X # call.child
           /\ ~IsPc(X)
           /\ PathTriples(X) = PathOrder(call)
           /\ PathTriples(call.child) = PathOrder(call)

(***************************************************************************)
(* add_node.                                                               *)
(***************************************************************************)
\* C13: add_node returns the node count it found as the new id, adds one
\* node with the time and flags passed and an empty path, and leaves the
\* time, flags and path of every node there was, and the three indexes,
\* as they were, also when it has to grow the node arrays.
C13_AddNodeFrame ==
    [][ (call'.op = "add_node" /\ ret' = OK)
        => /\ call'.child = Len(time)
           /\ Len(time') = Len(time) + 1
           /\ Len(node_flags') = Len(time')
           /\ time'[Len(time')] = call'.time
           /\ node_flags'[Len(time')] = call'.flags
           /\ path'[Len(time')] = << >>
           /\ \A u \in Nodes :
                 /\ time'[u + 1] = time[u + 1]
                 /\ node_flags'[u + 1] = node_flags[u + 1]
                 /\ PathRecordsIn(path', edge', u) = PathRecords(u)
           /\ [i \in 1 .. Len(left_index') |-> edge'[left_index'[i]]]
                = [i \in 1 .. Len(left_index) |-> edge[left_index[i]]]
           /\ [i \in 1 .. Len(right_index') |-> edge'[right_index'[i]]]
                = [i \in 1 .. Len(right_index) |-> edge[right_index[i]]]
           /\ [i \in 1 .. Len(path_index') |-> edge'[path_index'[i]]]
                = [i \in 1 .. Len(path_index) |-> edge[path_index[i]]]
           /\ left_index' = left_index
           /\ right_index' = right_index
           /\ path_index' = path_index
      ]_vars

\* add_node has just grown full node arrays that hold paths.
C13_Witness ==
    /\ LastWas("add_node")
    /\ ret = OK
    /\ call.num_nodes >= nodes_chunk_size
    /\ call.num_nodes % nodes_chunk_size = 0
    /\ path[call.num_nodes] # << >>
    /\ left_index # << >>

(***************************************************************************)
(* Squashed paths.                                                         *)
(***************************************************************************)
\* Two records that squash_edges would merge.
Abutting(x, y) == x.parent = y.parent /\ x.right = y.left

SquashedIn(p, es) ==
    \A u \in 1 .. Len(p) :
        \A i \in 1 .. Len(p[u]) - 1 : ~Abutting(es[p[u][i]], es[p[u][i + 1]])

Squashed == SquashedIn(path, edge)

\* The path the arrays of the call describe has no two edges to merge.
InputSquashed(c) ==
    \A i \in 1 .. Len(c.edges) - 1 : ~Abutting(c.edges[i + 1], c.edges[i])

\* C12 as claimed: after every successful call, add_path with or without
\* COMPRESS_PATH included, no path has two adjacent edges with the same
\* parent of which the first ends where the second starts.
C12_Claimed == ret = OK => Squashed

\* C12: a successful add_path with COMPRESS_PATH, and one without it whose
\* input has no two adjacent edges with the same parent that abut, keeps
\* every path free of adjacent edges with the same parent that abut.
C12_SquashedStep ==
    [][ (/\ Squashed
         /\ call'.op = "add_path"
         /\ ret' = OK
         /\ (TSI_COMPRESS_PATH \in call'.flags \/ InputSquashed(call')))
        => SquashedIn(path', edge')
      ]_vars

\* A compressing add_path was given a path with edges to merge, made a
\* path compression node, and every path is squashed.
C12_Witness ==
    /\ LastWas("add_path")
    /\ Compressing
    /\ ret = OK
    /\ ~InputSquashed(call)
    /\ Len(time) > call.num_nodes
    /\ Squashed

(***************************************************************************)
(* Edges marked unindexed.                                                 *)
(***************************************************************************)
\* The allocated edges whose child field is NULL_NODE.
DetachedEdges == { e \in 1 .. Len(edge) : ~edge[e].free /\ edge[e].child = NULL_NODE }

\* C11: when add_path has returned 0, no allocated edge is left with child
\* NULL_NODE: each edge that path compression or the indexed squash marked
\* so has been freed, or has its child back and is in the three indexes;
\* and no edge of a path has child NULL_NODE.
C11_NoDetachedEdges ==
    ret = OK =>
        /\ DetachedEdges = {}
        /\ \A e \in LiveEdges :
              /\ edge[e].child # NULL_NODE
              /\ InIndex(left_index, "left", e)
              /\ InIndex(right_index, "right", e)
              /\ InIndex(path_index, "path", e)

(***************************************************************************)
(* The frozen indexes.                                                     *)
(***************************************************************************)
\* x comes before y in (left, time of the child, child) order.
LeftOrderBefore(x, y) ==
    \/ x.left < y.left
    \/ /\ x.left = y.left
       /\ \/ time[x.child + 1] < time[y.child + 1]
          \/ time[x.child + 1] = time[y.child + 1] /\ x.child < y.child

\* x comes before y in (right, time of the child descending, child) order.
RightOrderBefore(x, y) ==
    \/ x.right < y.right
    \/ /\ x.right = y.right
       /\ \/ time[x.child + 1] > time[y.child + 1]
          \/ time[x.child + 1] = time[y.child + 1] /\ x.child < y.child

LiveEdgeValues == { edge_t(edge[e]) : e \in LiveEdges }

FrozenAreLiveEdges ==
    /\ num_edges = TotalEdges
    /\ Len(left_index_edges) = num_edges
    /\ Len(right_index_edges) = num_edges
    /\ Range(left_index_edges) = LiveEdgeValues
    /\ Range(right_index_edges) = LiveEdgeValues

FrozenAreSorted ==
    /\ \A i \in 1 .. Len(left_index_edges) - 1 :
          LeftOrderBefore(left_index_edges[i], left_index_edges[i + 1])
    /\ \A i \in 1 .. Len(right_index_edges) - 1 :
          RightOrderBefore(right_index_edges[i], right_index_edges[i + 1])

\* C14: when freeze_indexes has returned 0, num_edges is the number of
\* edges of the paths, left_index_edges holds exactly these edges in
\* (left, time of the child, child) order, and right_index_edges holds
\* exactly these edges in (right, time of the child descending, child)
\* order.
C14_FrozenIndexes ==
    (LastWas("freeze_indexes") /\ ret = OK) => FrozenAreLiveEdges /\ FrozenAreSorted

Frozen == << left_index_edges, right_index_edges, num_edges >>

\* C15: add_node, add_path (with or without COMPRESS_PATH) and
\* add_mutations leave left_index_edges, right_index_edges and num_edges
\* as they were.
C15_FrozenFrame ==
    [][ call'.op \in { "add_node", "add_path", "add_mutations" } => Frozen' = Frozen ]_vars

EdgeValues == { edge_t(edge[e]) : e \in 1 .. Len(edge) }

\* A compressing add_path has rewritten an edge the frozen arrays hold a
\* copy of, and a mutation was added since the indexes were frozen.
C15_Witness ==
    /\ LastWas("add_path")
    /\ Compressing
    /\ ret = OK
    /\ num_mutations > 0
    /\ num_edges > 0
    /\ \E i \in 1 .. num_edges : left_index_edges[i] \notin EdgeValues

(***************************************************************************)
(* dump and restore.                                                       *)
(***************************************************************************)
RestoreOps == { "restore_nodes", "restore_edges", "restore_mutations" }

\* C17: the tables dumped from a builder that add_node, successful add_path
\* and add_mutations calls have made can be restored into a new builder
\* with restore_nodes, restore_edges and restore_mutations, and the dump of
\* that builder has the same node, edge, site and mutation rows.  (A
\* restore_edges of no edges is let fail: its malloc(0) may return NULL.)
C17_RoundTrip ==
    [][ /\ (call'.op \in RestoreOps /\ ~(call'.op = "restore_edges" /\ call'.edges = << >>))
            => ret' = OK
        /\ (call.op = "restore_mutations" /\ call'.op = "dump")
               => /\ tables'.nodes = tables.nodes
                  /\ tables'.edges = tables.edges
                  /\ tables'.sites = tables.sites
                  /\ tables'.mutations = tables.mutations
      ]_vars

\* The rows of a table that a predicate selects, in table order.
RowsOfChild(rows, u) ==
    LET Mine(r) == r.child = u IN SelectSeq(rows, Mine)

RowsOfSite(rows, l) ==
    LET Mine(r) == r.site = l IN SelectSeq(rows, Mine)

EarlierOnSite(rows, j) == { i \in 1 .. j - 1 : rows[i].site = rows[j].site }

StateName(derived_state) == IF derived_state = 0 THEN "0" ELSE "1"

\* C18: dump writes one node row per node in id order; the edge rows by
\* increasing child, those of one child in path order; one site row per
\* site; the mutation rows by site and then in list order, the parent of a
\* row being the row id of the previous mutation row of the same site, and
\* null for the first of a site.
C18_DumpOrder ==
    LastWas("dump") =>
        /\ Len(tables.nodes) = Len(time)
        /\ \A u \in Nodes :
              /\ tables.nodes[u + 1] = [flags |-> node_flags[u + 1], time |-> time[u + 1]]
              /\ RowsOfChild(tables.edges, u)
                   = [i \in 1 .. Len(path[u + 1]) |-> edge_t(edge[path[u + 1][i]])]
        /\ Len(tables.edges) = TotalEdges
        /\ \A j \in 1 .. Len(tables.edges) - 1 :
              tables.edges[j].child <= tables.edges[j + 1].child
        /\ Len(tables.sites) = Len(mutations)
        /\ Len(tables.mutations) = num_mutations
        /\ \A j \in 1 .. Len(tables.mutations) - 1 :
              tables.mutations[j].site <= tables.mutations[j + 1].site
        /\ \A l \in 0 .. Len(mutations) - 1 :
              /\ Len(RowsOfSite(tables.mutations, l)) = Len(mutations[l + 1])
              /\ \A k \in 1 .. Len(mutations[l + 1]) :
                    /\ RowsOfSite(tables.mutations, l)[k].node = mutations[l + 1][k].node
                    /\ RowsOfSite(tables.mutations, l)[k].derived_state
                         = StateName(mutations[l + 1][k].derived_state)
        /\ \A j \in 1 .. Len(tables.mutations) :
              tables.mutations[j].parent
                = IF EarlierOnSite(tables.mutations, j) = {} THEN TSK_NULL
                  ELSE (CHOOSE i \in EarlierOnSite(tables.mutations, j) :
                          \A h \in EarlierOnSite(tables.mutations, j) : h <= i) - 1

\* dump has written the edges of two children and the mutations of two
\* sites, two of them on one site.
C18_Witness ==
    /\ LastWas("dump")
    /\ \E i, j \in 1 .. Len(tables.edges) : tables.edges[i].child # tables.edges[j].child
    /\ \E u \in Nodes : Len(path[u + 1]) > 1
    /\ Len(mutations[1]) = 2
    /\ Len(mutations[2]) = 1
    /\ tables.mutations[2].parent = 0
    /\ tables.mutations[3].parent = TSK_NULL

(***************************************************************************)
(* restore_edges.                                                          *)
(***************************************************************************)
\* Some row's child is smaller than that of the row before, or two rows in
\* a row of one child are not in increasing order of left.
OutOfOrder(rows) ==
    \E j \in 2 .. Len(rows) :
        \/ rows[j].child < rows[j - 1].child
        \/ rows[j].child = rows[j - 1].child /\ ~(rows[j - 1].left < rows[j].left)

\* Sorted by (child, left), the edges of one child not overlapping.
SortedApart(rows) ==
    \A j \in 2 .. Len(rows) :
        \/ rows[j - 1].child < rows[j].child
        \/ /\ rows[j - 1].child = rows[j].child
           /\ rows[j - 1].left < rows[j].left
           /\ rows[j - 1].right <= rows[j].left

FrozenAreIndexes ==
    /\ num_edges = Len(left_index)
    /\ left_index_edges = [i \in 1 .. Len(left_index) |-> edge_t(edge[left_index[i]])]
    /\ right_index_edges = [i \in 1 .. Len(right_index) |-> edge_t(edge[right_index[i]])]

RestoredAs(rows) ==
    /\ ret = OK
    /\ TotalEdges = Len(rows)
    /\ \A u \in Nodes :
          [i \in 1 .. Len(path[u + 1]) |-> edge_t(edge[path[u + 1][i]])]
            = RowsOfChild(rows, u)
    /\ \A e \in LiveEdges :
          /\ InIndex(left_index, "left", e)
          /\ InIndex(right_index, "right", e)
          /\ InIndex(path_index, "path", e)
    /\ Len(left_index) = TotalEdges
    /\ FrozenAreIndexes

\* C16: restore_edges returns UNSORTED_EDGES for every input in which a
\* row's child is smaller than that of the row before, or two consecutive
\* rows of one child are not in increasing order of left; for an input
\* sorted by (child, left) with the edges of a child not overlapping it
\* returns 0, has linked the edges of each child in input order, indexed
\* every edge and frozen the indexes.  (Calls that trip an assertion, and
\* the call with no rows, whose malloc(0) may return NULL, are let be.)
C16_RestoreEdges ==
    (LastWas("restore_edges") /\ ret # ABORT /\ call.edges # << >>)
    => /\ OutOfOrder(call.edges) => ret = TSI_ERR_UNSORTED_EDGES
       /\ SortedApart(call.edges) => RestoredAs(call.edges)

(***************************************************************************)
(* alloc.                                                                  *)
(***************************************************************************)
\* C19: alloc returns 0 and leaves a builder with no nodes, no edges, three
\* empty indexes, no mutations, and as many sites as there are rows j of
\* the site table with alleles[j] null.
C19_Alloc ==
    LastWas("alloc") =>
        /\ ret = OK
        /\ Len(time) = 0
        /\ edge_heap = 0
        /\ left_index = << >>
        /\ right_index = << >>
        /\ path_index = << >>
        /\ num_mutations = 0
        /\ Len(mutations) = Cardinality({ j \in 1 .. Len(call.edges) : call.edges[j] = "null" })

(***************************************************************************)
(* The time of a new path compression node.                                *)
(***************************************************************************)
\* C20: the node that a compressing add_path creates for a contig has as
\* time the least time of the parents that the path names on the contig,
\* minus 2^-16, whatever the times of the nodes are.
C20_PcTimeIsMinimum ==
    [][ (CompressCall(call') /\ ret' = OK /\ Len(time') = Len(time) + 1)
        => \E r \in SynthContigs(call') :
               time'[Len(time) + 1] = ContigTime(call', r)
      ]_vars

(***************************************************************************)
(* The nodes that path compression creates.                                *)
(***************************************************************************)
\* C21: every node that an add_path call creates has the IS_PC_ANCESTOR
\* flag; its time is at or below the time of the parent of each edge of its
\* own path minus 2^-16, and strictly above the time of the existing child
\* whose edges the call redirected to it.
C21_PcNodeFlagAndTime ==
    [][ call'.op = "add_path"
        => \A p \in Len(time) .. Len(time') - 1 :
               /\ TSI_NODE_IS_PC_ANCESTOR \in node_flags'[p + 1]
               /\ \A e \in Range(path'[p + 1]) :
                      time'[p + 1] <= time'[edge'[e].parent + 1] - PC_ANCESTOR_INCREMENT
               /\ \A X \in Nodes :
                      ( /\ X # call'.child
                        /\ \E e \in Range(path'[X + 1]) : edge'[e].parent = p )
                      => time'[p + 1] > time'[X + 1]
      ]_vars

\* The last call made a node with two edges to different parents, and an
\* older child has an edge to it.
C21_Witness ==
    /\ CompressCall(call)
    /\ ret = OK
    /\ Len(time) = call.num_nodes + 1
    /\ Len(path[Len(time)]) = 2
    /\ edge[path[Len(time)][1]].parent # edge[path[Len(time)][2]].parent
    /\ \E X \in Nodes :
           /\ X # call.child
           /\ X < call.num_nodes
           /\ \E e \in Range(path[X + 1]) : edge[e].parent = Len(time) - 1

(***************************************************************************)
(* Contigs.                                                                *)
(***************************************************************************)
\* C22: consecutive matches of a compressing add_path are in one contig
\* exactly when the later edge starts where the earlier matched edge ends
\* and both matched edges have one child.  A successful call creates one
\* node for each contig of two or more matches whose shared child is no PC
\* ancestor, in path order, each with the squashed edges of its contig as
\* its path; a call whose contigs all have one match creates no node and
\* leaves every edge that existed as it was.
C22_ContigsAndNodes ==
    [][ ( /\ CompressCall(call')
          /\ call'.child \in Nodes
          /\ path[call'.child + 1] = << >>
          /\ ret' = OK )
        => LET c == call'
               Before(r) == Cardinality({ r2 \in SynthContigs(c) : r2[1] < r[1] })
               Old(r) == r.child # c.child
           IN  /\ Len(time') = Len(time) + Cardinality(SynthContigs(c))
               /\ \A r \in SynthContigs(c) :
                      PathTriplesIn(path', edge', Len(time) + Before(r))
                          = SquashTriples(SubSeq(PathOrder(c), r[1], r[2]))
               /\ (\A r \in Contigs(c) : r[1] = r[2])
                      => /\ time' = time
                         /\ node_flags' = node_flags
                         /\ \A u \in Nodes : u # c.child =>
                                PathRecordsIn(path', edge', u) = PathRecords(u)
                         /\ SelectSeq(IndexRecordsIn(left_index', edge'), Old)
                                = IndexRecordsIn(left_index, edge)
                         /\ SelectSeq(IndexRecordsIn(right_index', edge'), Old)
                                = IndexRecordsIn(right_index, edge)
                         /\ SelectSeq(IndexRecordsIn(path_index', edge'), Old)
                                = IndexRecordsIn(path_index, edge)
      ]_vars

\* The last call, a compressing add_path, made two nodes.
C22_Witness ==
    /\ CompressCall(call)
    /\ ret = OK
    /\ Len(time) = call.num_nodes + 2
    /\ path[Len(time)] # << >>
    /\ path[Len(time) - 1] # << >>

(***************************************************************************)
(* find_match.                                                             *)
(***************************************************************************)
\* The builder with one more edge record, not indexed, for find_match to
\* be asked about; the record is the last of the heap.  find_match does not
\* read the child of the query.
WithQuery(q) ==
    [self EXCEPT !.edge = Append(@, [left |-> q.left, right |-> q.right,
                                       parent |-> q.parent, child |-> NULL_NODE,
                                       time |-> 0, free |-> FALSE])]

QueryInputs == [left : 0 .. MaxCoord, right : 0 .. MaxCoord, parent : Nodes]

\* The entries of the path index with the (left, right, parent) of q.
SameTripleEntries(q) == { i \in DOMAIN path_index : SameTriple(edge[path_index[i]], q) }

\* C23: whatever node the closest search ends on, find_match returns the
\* indexed edge with the (left, right, parent) of the query that has the
\* smallest child id, and NULL (0 here) when the path index holds no edge
\* with that (left, right, parent).
C23_FindMatch ==
    \A q \in QueryInputs :
        find_match_results(WithQuery(q), Len(edge) + 1)
            = IF SameTripleEntries(q) = {} THEN { 0 }
              ELSE { path_index[i] : i \in { k \in SameTripleEntries(q) :
                         \A k2 \in SameTripleEntries(q) :
                             edge[path_index[k]].child <= edge[path_index[k2]].child } }

\* Two children have an indexed edge with the (left, right, parent) asked
\* for, node 0 has none, and the closest search may end on either side.
C23_Witness ==
    \E q \in QueryInputs :
        /\ Cardinality({ edge[path_index[i]].child : i \in SameTripleEntries(q) }) >= 2
        /\ Cardinality(avl_search_closest(WithQuery(q), "path",
                                          [left |-> q.left, right |-> q.right,
                                           parent |-> q.parent, child |-> 0])) = 2

(***************************************************************************)
(* Non-indexed squash.                                                     *)
(***************************************************************************)
\* The coordinates a chain of triples covers, and the parent it gives one.
Covered(ts) == UNION { ts[i].left .. ts[i].right - 1 : i \in DOMAIN ts }

ParentAt(ts, x) ==
    ts[CHOOSE i \in DOMAIN ts : ts[i].left <= x /\ x < ts[i].right].parent

\* C24: squash_edges on the path just linked by a compressing add_path that
\* redirects no edge (no contig of two matches): the path it leaves has no
\* two adjacent edges with one parent that touch, covers the coordinates of
\* the input with the same parent at each, keeps as many edges allocated as
\* it has left on the path, and a chain with one parent becomes one edge
\* over the whole range.
C24_SquashEdges ==
    [][ ( /\ CompressCall(call')
          /\ call'.child \in Nodes
          /\ path[call'.child + 1] = << >>
          /\ ret' = OK
          /\ \A r \in Contigs(call') : r[1] = r[2] )
        => LET in == PathOrder(call')
               out == PathTriplesIn(path', edge', call'.child)
           IN  /\ \A i \in 1 .. Len(out) - 1 :
                      ~(out[i].right = out[i + 1].left /\ out[i].parent = out[i + 1].parent)
               /\ Covered(out) = Covered(in)
               /\ \A x \in Covered(in) : ParentAt(out, x) = ParentAt(in, x)
               /\ edge_heap' = edge_heap + Len(out)
               /\ \A e \in Range(path'[call'.child + 1]) :
                      ~edge'[e].free /\ edge'[e].child = call'.child
               /\ (\A i \in DOMAIN in : in[i].parent = in[1].parent)
                      => out = << [left |-> in[1].left, right |-> in[Len(in)].right,
                                   parent |-> in[1].parent] >>
      ]_vars

\* The last call squashed a path of five edges to two or three.
C24_Witness ==
    /\ CompressCall(call)
    /\ ret = OK
    /\ Len(time) = call.num_nodes
    /\ Len(call.edges) = 5
    /\ Len(path[call.child + 1]) \in { 2, 3 }
    /\ \A e \in Range(path[call.child + 1]) : edge[e].parent \in { r.parent : r \in Range(call.edges) }

(***************************************************************************)
(* The object heaps.                                                       *)
(***************************************************************************)
\* C25: between calls, after add_node calls and add_path calls that
\* succeeded or returned BAD_PATH_PARENT, BAD_PATH_TIME or
\* NONCONTIGUOUS_EDGES, as many edge records are allocated as the paths
\* have edges, and three times as many index nodes.
C25_HeapCounts ==
    ret \in { OK } \cup ValidationErrors =>
        /\ edge_heap = TotalEdges
        /\ avl_node_heap = 3 * edge_heap

(***************************************************************************)
(* The paths restore_edges builds.                                         *)
(***************************************************************************)
LeftSortedPaths ==
    \A c \in Nodes : \A i \in 1 .. Len(path[c + 1]) - 1 :
        edge[path[c + 1][i]].left < edge[path[c + 1][i + 1]].left

\* C26: after a successful restore_edges, the edges of every path are in
\* increasing order of left, and the right of each is the left of the next.
C26_RestoredPathsContiguous ==
    (LastWas("restore_edges") /\ ret = OK)
    => /\ LeftSortedPaths
       /\ \A c \in Nodes : \A i \in 1 .. Len(path[c + 1]) - 1 :
              edge[path[c + 1][i]].right = edge[path[c + 1][i + 1]].left

(***************************************************************************)
(* The coordinates of an edge.                                             *)
(***************************************************************************)
\* C27: after add_node calls and successful add_path calls, every edge of a
\* path or of an index has 0 <= left < right.
C27_EdgeCoordinates ==
    ret = OK =>
        \A e \in LiveEdges \cup Range(left_index) \cup Range(right_index)
                     \cup Range(path_index) :
            0 <= edge[e].left /\ edge[e].left < edge[e].right

(***************************************************************************)
(* The mutation lists.                                                     *)
(***************************************************************************)
\* The list nodes that rows adds to site l (from 0), in the order of rows.
RECURSIVE AddedOnSite(_, _)
AddedOnSite(rows, l) ==
    IF rows = << >> THEN << >>
    ELSE (IF Head(rows).site = l
          THEN << [node |-> Head(rows).node, derived_state |-> Head(rows).derived_state] >>
          ELSE << >>) \o AddedOnSite(Tail(rows), l)

IsPrefix(s, t) == Len(s) <= Len(t) /\ SubSeq(t, 1, Len(s)) = s

\* C28: after an add_mutations or restore_mutations call that returns (no
\* assertion tripped), the list of every site with a mutation starts with
\* derived_state 1; every list is the list before the call with the call's
\* mutations of that site after it (for restore_mutations, the rows of the
\* site in row order; for add_mutations, list nodes of the call's node);
\* and num_mutations is the total length of the lists.
C28_MutationLists ==
    [][ (call'.op \in { "add_mutations", "restore_mutations" } /\ ret' = OK)
        => /\ \A l \in DOMAIN mutations' :
                  /\ mutations'[l] # << >> => mutations'[l][1].derived_state = 1
                  /\ IsPrefix(mutations[l], mutations'[l])
                  /\ call'.op = "restore_mutations"
                         => mutations'[l] = mutations[l] \o AddedOnSite(call'.edges, l - 1)
                  /\ call'.op = "add_mutations"
                         => \A i \in Len(mutations[l]) + 1 .. Len(mutations'[l]) :
                                mutations'[l][i].node = call'.child
           /\ num_mutations' = SumLen(mutations')
      ]_vars

\* The last call added two mutations to lists of which one had entries, and
\* the list of a site now ends with derived_state 0.
C28_Witness ==
    /\ LastWas("restore_mutations")
    /\ ret = OK
    /\ Len(call.edges) = 2
    /\ num_mutations = SumLen(mutations)
    /\ \E l \in DOMAIN mutations :
           /\ Len(mutations[l]) >= 3
           /\ mutations[l][Len(mutations[l])].derived_state = 0
           /\ mutations[l][Len(mutations[l])].node = call.edges[2].node

(***************************************************************************)
(* The node ids of an edge.                                                *)
(***************************************************************************)
\* C29: after a successful add_path the parent and the child of every edge
\* of a path are ids of nodes; and an add_path call whose child, or the
\* parent of one of whose edges, is no id of a node (negative, or
\* num_nodes and above) returns an error code, without a read outside the
\* node arrays.
C29_NodeIds ==
    [][ call'.op = "add_path"
        => /\ ret' = OK
                  => \A e \in Range(Flatten(path')) :
                         /\ edge'[e].parent \in 0 .. Len(time') - 1
                         /\ edge'[e].child \in 0 .. Len(time') - 1
           /\ ( \/ call'.child \notin Nodes
                \/ \E j \in DOMAIN call'.edges : call'.edges[j].parent \notin Nodes )
                  => /\ ret' \in { TSI_ERR_GENERIC } \cup ValidationErrors
                     /\ fault' = NoFault
      ]_vars

(***************************************************************************)
(* The matches of a compressing add_path, contig after contig.             *)
(***************************************************************************)
\* C30: with well-formed calls, one path per child, some added without
\* COMPRESS_PATH and later ones with it, no call reads a matched edge that
\* the processing of an earlier contig has freed, finds a matched edge with
\* another child than its contig's, or unindexes an edge that an index does
\* not hold.
C30_MatchesStayLive ==
    fault \notin { "use_after_free", "assert_mapped_child", "assert_avl_search" }

(***************************************************************************)
(* The epochs of the ancestor store.                                       *)
(***************************************************************************)
\* ancestor_store_alloc has returned 0.
StoreAllocated == store # NoStore /\ store.ret = OK

\* The ages of the ancestors 1, 2, ... never go up.
NonIncreasingAges ==
    \A j \in 2 .. store.num_ancestors - 1 :
        store.ancestors.age[j + 1] <= store.ancestors.age[j]

\* The ancestors of epoch e, as ancestor_store_get_epoch_ancestors lists them.
EpochAncestors(e) ==
    { ancestor_store_get_epoch_ancestors(store, e)[k] :
          k \in 1 .. Len(ancestor_store_get_epoch_ancestors(store, e)) }

EpochsOf(j) == { e \in 1 .. store.num_epochs - 1 : j \in EpochAncestors(e) }

\* The epochs 1 .. num_epochs - 1 are what the claim says of them.
EpochsPartitionAncestors ==
    /\ \A e \in 1 .. store.num_epochs - 1 :
           /\ EpochAncestors(e) # {}
           /\ EpochAncestors(e) \subseteq 0 .. store.num_ancestors - 1
           /\ \A i, j \in EpochAncestors(e) :
                  store.ancestors.age[i + 1] = store.ancestors.age[j + 1]
    /\ \A j \in 0 .. store.num_ancestors - 1 :
           /\ Cardinality(EpochsOf(j)) = 1
           /\ \A e \in EpochsOf(j) :
                  /\ store.epochs.first_ancestor[e + 1] \in EpochAncestors(e)
                  /\ \A i \in EpochAncestors(e) : store.epochs.first_ancestor[e + 1] <= i
                  /\ store.ancestors.num_older_ancestors[j + 1]
                         = store.epochs.first_ancestor[e + 1]
    /\ EpochAncestors(store.num_epochs - 1) = { 0 }

\* C32: in an ancestor store allocated with at least two ancestors whose
\* ages, from ancestor 1 on, never go up, the epochs 1 .. num_epochs - 1 are
\* non-empty ranges of ancestor ids, every ancestor is in exactly one of
\* them, the ancestors of one epoch have one age, the last epoch holds
\* ancestor 0 alone, and num_older_ancestors[j] is the first ancestor of
\* the epoch of j.
C32_Epochs ==
    (StoreAllocated /\ store.num_ancestors >= 2 /\ NonIncreasingAges)
        => EpochsPartitionAncestors

\* The same with the age of ancestor 1 below UINT32_MAX.
EpochsBelowMaxAge ==
    ( /\ StoreAllocated
      /\ store.num_ancestors >= 2
      /\ NonIncreasingAges
      /\ store.ancestors.age[2] < UINT32_MAX )
        => EpochsPartitionAncestors

\* A store of four ancestors with an epoch of two.
EpochsReached ==
    /\ StoreAllocated
    /\ store.num_ancestors = 4
    /\ NonIncreasingAges
    /\ store.num_epochs = 4
    /\ \E e \in 1 .. 2 : Cardinality(EpochAncestors(e)) = 2
    /\ EpochsPartitionAncestors

(***************************************************************************)
(* The ancestry that a compressing add_path leaves.                        *)
(***************************************************************************)
\* The node that q stands for at coordinate x: q itself, or, when q is a
\* path compression ancestor whose path covers x, what its parent at x
\* stands for.  n bounds the descent.
RECURSIVE ThroughIn(_, _, _, _, _, _)
ThroughIn(p, es, fl, q, x, n) ==
    IF /\ n > 0
       /\ TSI_NODE_IS_PC_ANCESTOR \in fl[q + 1]
       /\ x \in Covered(PathTriplesIn(p, es, q))
    THEN ThroughIn(p, es, fl, ParentAt(PathTriplesIn(p, es, q), x), x, n - 1)
    ELSE q

\* The ancestor of child u at x: the parent of its path at x, through the
\* path compression ancestors.
AncestorIn(p, es, fl, u, x) ==
    ThroughIn(p, es, fl, ParentAt(PathTriplesIn(p, es, u), x), x, Len(fl))

\* The children that add_path calls have given a path.
AddedChildren == { u \in Nodes : ~IsPc(u) /\ path[u + 1] # << >> }

\* The last step left every path with the ancestry of the call's arguments
\* and of the paths before it.
AncestryKept ==
    /\ Covered(PathTriplesIn(path', edge', call'.child)) = Covered(call'.edges)
    /\ \A x \in Covered(call'.edges) :
           AncestorIn(path', edge', node_flags', call'.child, x)
               = ThroughIn(path, edge, node_flags, ParentAt(call'.edges, x), x, Len(time))
    /\ \A u \in AddedChildren \ { call'.child } :
           /\ Covered(PathTriplesIn(path', edge', u)) = Covered(PathTriples(u))
           /\ \A x \in Covered(PathTriples(u)) :
                  AncestorIn(path', edge', node_flags', u, x)
                      = AncestorIn(path, edge, node_flags, u, x)

\* A compressing add_path that returns 0 leaves, for the new child and for
\* every child added before, the coordinates that its path covers and the
\* ancestor at each of them as the arguments of the calls gave them.
AncestryKeptOnReturn ==
    [][ (CompressCall(call') /\ ret' = OK) => AncestryKept ]_vars

\* The same add_path call without TSI_COMPRESS_PATH, on the builder before
\* the call, returns 0.
PlainCallSucceeds ==
    \E malloc0 \in MallocZero(call'.edges, {}) :
        /\ ~Faulted(tree_sequence_builder_add_path(self, call'.child, call'.edges, {},
                                                   malloc0))
        /\ tree_sequence_builder_add_path(self, call'.child, call'.edges, {},
                                          malloc0).ret = OK

\* C31: path compression preserves ancestry.  A compressing add_path whose
\* arguments the call without TSI_COMPRESS_PATH accepts gives the new child
\* a path too, and every child, the new one and those added before, has
\* over the coordinates of its path the ancestors that the arguments of
\* its call named, once the path compression ancestors are passed through.
C31_CompressionPreservesAncestry ==
    [][ (CompressCall(call') /\ PlainCallSucceeds) => (ret' = OK /\ AncestryKept) ]_vars

====
